---- MODULE Spec2Model ----
(***************************************************************************)
(* A model of cephci's remote-execution and topology core (ceph/ceph.py)   *)
(* and of the cephadm upgrade workflow (tests/cephadm/                     *)
(* test_cephadm_upgrade.py).                                               *)
(*                                                                         *)
(* The module holds several specifications over disjoint groups of         *)
(* variables; a specification leaves the other groups at their idle value. *)
(*   SpecNode   : nodes, volumes and role-objects of a cluster             *)
(*   SpecRun    : the upgrade workflow run()                               *)
(*   SpecHealth : Ceph.check_health                                        *)
(*   SpecExec   : CephNode.exec_command with long_running and read_stream  *)
(*   SpecAlloc  : threads creating OSD role-objects on one node            *)
(*   SpecConn   : SSHConnectionManager and the persisted state of a node   *)
(*   SpecRoles  : RolesContainer                                           *)
(*   SpecActive : role-objects under the operations bearing on is_active   *)
(*   SpecProxy  : the proxy operations of CephObject and CephDemon         *)
(*   SpecQuery  : the queries of a cluster by role                         *)
(***************************************************************************)
EXTENDS Integers, Sequences, FiniteSets, TLC

VARIABLES
    \* ---- cluster topology (CephNode / Ceph) ----
    volume_list,        \* node -> sequence of NodeVolume records
    ceph_object_list,   \* node -> sequence of role-object records (or NoneObj)
    node_type,          \* node -> "baremetal" | "openstack" (vm_node.node_type)
    ansible_config,     \* Ceph.__ansible_config, or Unset
    reserved_volumes,   \* node -> volumes allocated by get_osd_devices for journals
    raised,             \* exception raised by the last topology operation
    rhcs_version,       \* Ceph.__rhcs_version
    \* ---- upgrade workflow (test_cephadm_upgrade.run) ----
    run_pc,             \* the statement run() is at
    run_config,         \* kwargs["config"] and the cluster facts run() reads
    executor,           \* TRUE once a RadosBench executor exists
    pending,            \* what the try statement holds while finally runs
    result,             \* "running", the value returned, or "exception"
    run_exc,            \* the exception caught by except or propagated
    run_log,            \* the collaborator calls made so far, with outcomes
    \* ---- Ceph.check_health ----
    h_pc,               \* the statement check_health is at
    h_args,             \* rhbuild, timeout and the expected monitor count
    h_clock,            \* datetime.now() - starttime, in seconds
    h_out,              \* the local variable out
    h_status,           \* the status text last obtained by the poll loop
    h_osd,              \* what osd_check read and returned
    h_result,           \* "running", the value returned, or "exception"
    \* ---- CephNode.exec_command / long_running ----
    x_pc,               \* the statement exec_command / long_running is at
    x_kw,               \* the keyword arguments, and the node's run_once
    x_remote,           \* the remote process: when it exits, and its exit code
    x_clock,            \* datetime.now(), in seconds
    x_start,            \* _exec_start_time, -1 before the command is issued
    x_end_time,         \* _end_time (or _new_timeout during the last read)
    x_read,             \* chunks read so far: [out |-> .., err |-> ..]
    x_stream,           \* the stream read_stream is reading
    x_result,           \* what exec_command returned or raised
    \* ---- threads in CephNode.create_ceph_object("osd") ----
    a_pc,               \* thread -> the statement it is at
    a_free,             \* thread -> its local free_volume_list
    a_vols,             \* the node's volume_list: sequence of statuses
    a_objs,             \* the roles of the node's ceph_object_list
    a_calls,            \* thread -> calls of create_ceph_object begun
    a_raised,           \* thread -> exception raised by its last call
    \* ---- SSHConnectionManager, CephNode.__getstate__ / __setstate__ ----
    c_pc,               \* the statement get_client / __connect is at
    c_cur,              \* the manager whose get_client is running
    c_mgr,              \* manager -> [transport, client]: sessions, 0 for None
    c_active,           \* the sessions whose transport is_active()
    c_opened,           \* manager -> the sessions it has opened
    c_sessions,         \* the number of sessions opened so far
    c_host,             \* outage_timeout, and whether the host accepts sessions
    c_clock,            \* seconds since get_client was called
    c_end_time,         \* end_time of __connect
    c_attempts,         \* connection attempts of the current get_client
    c_was_active,       \* whether get_client found an active stored transport
    c_result,           \* how the last get_client ended
    c_persisted,        \* the pickled state of the node, or None
    \* ---- RolesContainer ----
    role_list,          \* RolesContainer.role_list
    rc_raised,          \* exception raised by the last container operation
    \* ---- the proxy operations of a role-object (CephObject, CephDemon) ----
    p_obj,              \* the role-object and the facts of its node it reads
    p_call,             \* the operation called on the object and its arguments
    p_node_call,        \* the operation and arguments its node receives
    p_node_result,      \* what the node's operation returns
    p_result,           \* what the object's operation returns
    \* ---- the queries of a cluster (Ceph.get_nodes, get_ceph_objects) ----
    q_cluster,          \* node_list (per node its ceph_object_list), rhcs_version
    q_call,             \* the query called and its arguments
    q_result,           \* what it returns
    \* ---- Ceph.setup_packages ----
    k_cluster,          \* node_list (pkg_type, installer role) and the arguments
    k_i,                \* index in node_list of the node the loop is at
    k_pc,               \* position of the calling thread
    k_todo,             \* commands the loop body still issues to node k_i
    k_running,          \* per node, the commands issued and not yet ended
    k_spawned           \* nodes whose spawned package update has not ended

nodeVars == <<volume_list, ceph_object_list, node_type, ansible_config,
              reserved_volumes, raised, rhcs_version>>

runVars == <<run_pc, run_config, executor, pending, result, run_exc, run_log>>

healthVars == <<h_pc, h_args, h_clock, h_out, h_status, h_osd, h_result>>

execVars == <<x_pc, x_kw, x_remote, x_clock, x_start, x_end_time, x_read,
              x_stream, x_result>>

allocVars == <<a_pc, a_free, a_vols, a_objs, a_calls, a_raised>>

connVars == <<c_pc, c_cur, c_mgr, c_active, c_opened, c_sessions, c_host, c_clock,
              c_end_time, c_attempts, c_was_active, c_result, c_persisted>>

rolesVars == <<role_list, rc_raised>>

proxyVars == <<p_obj, p_call, p_node_call, p_node_result, p_result>>

queryVars == <<q_cluster, q_call, q_result>>

pkgVars == <<k_cluster, k_i, k_pc, k_todo, k_running, k_spawned>>

laterVars == <<proxyVars, queryVars, pkgVars>>

vars == <<nodeVars, runVars, healthVars, execVars, allocVars, connVars,
          rolesVars, laterVars>>

\* what the operations of one group leave alone
notNodeVars == <<runVars, healthVars, execVars, allocVars, connVars, rolesVars,
                 laterVars>>
notRunVars == <<nodeVars, healthVars, execVars, allocVars, connVars, rolesVars,
                 laterVars>>
notHealthVars == <<nodeVars, runVars, execVars, allocVars, connVars, rolesVars,
                 laterVars>>
notExecVars == <<nodeVars, runVars, healthVars, allocVars, connVars, rolesVars,
                 laterVars>>
notAllocVars == <<nodeVars, runVars, healthVars, execVars, connVars, rolesVars,
                 laterVars>>
notConnVars == <<nodeVars, runVars, healthVars, execVars, allocVars, rolesVars,
                 laterVars>>
notProxyVars == <<nodeVars, runVars, healthVars, execVars, allocVars, connVars,
                  rolesVars, queryVars, pkgVars>>
notQueryVars == <<nodeVars, runVars, healthVars, execVars, allocVars, connVars,
                  rolesVars, proxyVars, pkgVars>>
notPkgVars == <<nodeVars, runVars, healthVars, execVars, allocVars, connVars,
                rolesVars, proxyVars, queryVars>>
notRolesVars == <<nodeVars, runVars, healthVars, execVars, allocVars, connVars,
                 laterVars>>

(***************************************************************************)
(* Bounds of the model.                                                    *)
(***************************************************************************)
MaxVolumes == 2      \* no_of_volumes of a node ranges over 0..MaxVolumes
MaxObjects == 2      \* create_ceph_object is taken while the list is shorter
MaxOsds == 2         \* num_osds of a status report ranges over 1..MaxOsds
MaxMons == 2         \* monitor counts range over 0..MaxMons
MaxExit == 3         \* the remote process exits at 0..MaxExit seconds, or never
MaxClock == 5        \* the poll loop of long_running is followed up to here
MaxChunks == 2       \* chunks of output a command delivers per stream
MaxDelay == 2        \* seconds a blocking recv waits for the next chunk
MaxCalls == 2        \* calls of create_ceph_object a thread makes
MaxSessions == 2     \* sessions the host grants to the managers of a node
MaxRoles == 3        \* append is taken while role_list is shorter
MaxNodes == 2        \* nodes in the node_list of a queried cluster
MaxOrder == 2        \* order_id of get_ceph_object ranges over 0..MaxOrder
MaxFleet == 2        \* nodes of the cluster whose packages are set up

(***************************************************************************)
(* Generic helpers.                                                        *)
(***************************************************************************)
Range(s) == {s[i] : i \in DOMAIN s}

Min(S) == CHOOSE x \in S : \A y \in S : x <= y

RECURSIVE Sorted(_)
\* the elements of a finite set of integers, in increasing order
Sorted(S) == IF S = {} THEN <<>> ELSE <<Min(S)>> \o Sorted(S \ {Min(S)})

RemoveAt(s, i) == SubSeq(s, 1, i - 1) \o SubSeq(s, i + 1, Len(s))

(***************************************************************************)
(* NodeVolume                                                              *)
(***************************************************************************)
FREE == "free"
ALLOCATED == "allocated"
None == "None"

NodeVolume(status, path) == [status |-> status, path |-> path]

\* "/dev/vd" + chr(devchar) for devchar = 98, 99, ...
VdDev == <<"/dev/vdb", "/dev/vdc", "/dev/vdd", "/dev/vde", "/dev/vdf", "/dev/vdg">>

\* the volumes of a baremetal vm_node carry their own paths
BaremetalPath == <<"/dev/sdb", "/dev/sdc", "/dev/sdd", "/dev/sde", "/dev/sdf",
                   "/dev/sdg">>

\* device[device.rfind("/") + 1 : :] on the device strings of the model
Basename(device) ==
    CASE device = "/dev/vdb" -> "vdb" [] device = "/dev/vdc" -> "vdc"
      [] device = "/dev/vdd" -> "vdd" [] device = "/dev/vde" -> "vde"
      [] device = "/dev/vdf" -> "vdf" [] device = "/dev/vdg" -> "vdg"
      [] device = "/dev/sdb" -> "sdb" [] device = "/dev/sdc" -> "sdc"
      [] device = "/dev/sdd" -> "sdd" [] device = "/dev/sde" -> "sde"
      [] device = "/dev/sdf" -> "sdf" [] device = "/dev/sdg" -> "sdg"
      [] OTHER -> device          \* no "/" in it: rfind gives -1

(***************************************************************************)
(* Role objects                                                            *)
(***************************************************************************)
DEMON_ROLES == {"mon", "osd", "mgr", "rgw", "mds", "nfs", "grafana"}
CLIENT_ROLES == <<"client">>

\* Python's ==  between a str and a list: never equal
PyStrEqList(str, list) == FALSE

NoneObj == [kind |-> "None", role |-> None, device |-> None,
            containerized |-> None, is_active |-> FALSE]

CephObject(role) == [kind |-> "CephObject", role |-> role, device |-> None,
                     containerized |-> None, is_active |-> FALSE]

CephInstaller(role) == [kind |-> "CephInstaller", role |-> role, device |-> None,
                        containerized |-> None, is_active |-> FALSE]

CephClient(role) == [kind |-> "CephClient", role |-> role, device |-> None,
                     containerized |-> None, is_active |-> FALSE]

CephDemon(role) == [kind |-> "CephDemon", role |-> role, device |-> None,
                    containerized |-> None, is_active |-> TRUE]

\* CephDemon.__init__ assigns is_active, which the CephOsd setter drops
CephOsd == [kind |-> "CephOsd", role |-> "osd", device |-> None,
            containerized |-> None, is_active |-> FALSE]

IsDemon(o) == o.kind \in {"CephDemon", "CephOsd"}

\* CephOsd.is_active read from the attribute that CephDemon.__init__ writes
is_active_Stored(o) == o.is_active

\* CephOsd.is_active is the truth value of the device (None and the empty
\* string are false), CephDemon.is_active is stored
is_active(o) ==
    IF o.kind = "CephOsd" THEN o.device # None /\ o.device # "" ELSE o.is_active

\* both return the volumes (here: their indices) in volume_list order
get_free_volumes(vols) == Sorted({i \in DOMAIN vols : vols[i].status = FREE})

get_allocated_volumes(vols) ==
    Sorted({i \in DOMAIN vols : vols[i].status = ALLOCATED})

SetStatus(vols, i, st) == [vols EXCEPT ![i].status = st]

\* CephObjectFactory.create_ceph_object: the object made for a role and the
\* node's volumes afterwards; raised names the exception when it fails
CephObjectFactory_create_ceph_object(vols, role) ==
    IF role = "installer"
    THEN [raised |-> None, obj |-> CephInstaller(role), vols |-> vols]
    ELSE IF PyStrEqList(role, CLIENT_ROLES)
    THEN [raised |-> None, obj |-> CephClient(role), vols |-> vols]
    ELSE IF role = "osd"
    THEN LET free_volume_list == get_free_volumes(vols) IN
         IF Len(free_volume_list) > 0
         THEN [raised |-> None, obj |-> CephOsd,
               vols |-> SetStatus(vols, free_volume_list[1], ALLOCATED)]
         ELSE [raised |-> "RuntimeError", obj |-> NoneObj, vols |-> vols]
    ELSE IF role \in DEMON_ROLES
    THEN [raised |-> None, obj |-> CephDemon(role), vols |-> vols]
    ELSE IF role # "pool"
    THEN [raised |-> None, obj |-> CephObject(role), vols |-> vols]
    ELSE [raised |-> None, obj |-> NoneObj, vols |-> vols]

RECURSIVE CreateAll(_, _, _)
\* the list comprehension of CephNode.__init__: one object per role but "pool"
CreateAll(vols, roles, objs) ==
    IF roles = <<>> THEN [raised |-> None, objs |-> objs, vols |-> vols]
    ELSE IF Head(roles) = "pool" THEN CreateAll(vols, Tail(roles), objs)
    ELSE LET r == CephObjectFactory_create_ceph_object(vols, Head(roles)) IN
         IF r.raised # None THEN [raised |-> r.raised, objs |-> objs, vols |-> vols]
         ELSE CreateAll(r.vols, Tail(roles), Append(objs, r.obj))

\* CephNode.get_ceph_objects(role) on a list without empty entries
ObjectsOfRole(objs, role) == SelectSeq(objs, LAMBDA o : o.role = role)

RECURSIVE FillOsds(_, _)
\* the while loop of CephNode.__init__: one more osd per remaining free volume
FillOsds(vols, objs) ==
    IF Len(ObjectsOfRole(objs, "osd")) > 0 /\ Len(get_free_volumes(vols)) > 0
    THEN LET r == CephObjectFactory_create_ceph_object(vols, "osd") IN
         FillOsds(r.vols, Append(objs, r.obj))
    ELSE [objs |-> objs, vols |-> vols]

\* CephNode.__init__(role=roles, no_of_volumes=n) on a node of the given type
CephNode_init(roles, n, type) ==
    LET vols0 == [i \in 1..n |->
                    NodeVolume(FREE, IF type = "baremetal" THEN BaremetalPath[i]
                                     ELSE None)]
        c == CreateAll(vols0, roles, <<>>)
        f == FillOsds(c.vols, c.objs)
    IN  IF c.raised # None
        THEN [raised |-> c.raised, ceph_object_list |-> <<>>, volume_list |-> vols0]
        ELSE [raised |-> None, ceph_object_list |-> f.objs, volume_list |-> f.vols]

(***************************************************************************)
(* Ceph: the cluster                                                       *)
(***************************************************************************)
Nodes == {1}                         \* Ceph.node_list, in this order
Unset == [set |-> FALSE]             \* no __ansible_config attribute yet
NoList == <<None>>                   \* config.get("dedicated_devices") is None

\* an entry of the list that is no object makes ceph_demon.role fail
HasNone(objs) == \E i \in DOMAIN objs : objs[i].kind = "None"

\* node.role == role: RolesContainer over the roles of the non-empty entries
NodeHasRole(objs, role) ==
    LET node_roles == [i \in 1..Len(SelectSeq(objs, LAMBDA o : o.kind # "None")) |->
                        SelectSeq(objs, LAMBDA o : o.kind # "None")[i].role]
    IN  IF Len(node_roles) > 0 THEN role \in Range(node_roles) ELSE role = "pool"

RECURSIVE AllocateFree(_, _)
\* k times: node.get_free_volumes()[0].status = NodeVolume.ALLOCATED
AllocateFree(vols, k) ==
    IF k = 0 THEN vols
    ELSE AllocateFree(SetStatus(vols, get_free_volumes(vols)[1], ALLOCATED), k - 1)

\* Ceph.get_osd_devices(node): the devices returned and the volumes afterwards
get_osd_devices(vols, type, config) ==
    LET allocated == get_allocated_volumes(vols)
        devs0 == IF type = "baremetal"
                 THEN [i \in 1..Len(allocated) |-> vols[allocated[i]].path]
                 ELSE [i \in 1..Len(allocated) |-> VdDev[i]]
    IN  IF ~config.set
        THEN [raised |-> "RuntimeError", devs |-> <<>>, vols |-> vols, reserved |-> 0]
        ELSE
        LET collocated == config.osd_scenario = "collocated"
            lvm == config.osd_scenario = "lvm"
        IN  IF ~collocated /\ ~lvm /\ config.dedicated_devices = NoList
            THEN [raised |-> "TypeError", devs |-> <<>>, vols |-> vols,
                  reserved |-> 0]                              \* set(None)
            ELSE
            LET reserved_devs == IF ~collocated /\ ~lvm
                                 THEN Range(config.dedicated_devices) ELSE {}
                fits == Len(get_free_volumes(vols)) >= Cardinality(reserved_devs)
                k == IF fits THEN Cardinality(reserved_devs) ELSE 0
            IN  [raised |-> None,
                 devs |-> SelectSeq(devs0, LAMBDA d : d \notin reserved_devs),
                 vols |-> AllocateFree(vols, k),
                 reserved |-> k]

RECURSIVE SetDevices_KeepsOld(_, _, _)
\* the loop leaving an OSD alone once the devices have run out
SetDevices_KeepsOld(objs, devices, i) ==
    IF i > Len(objs) THEN objs
    ELSE IF objs[i].role # "osd" \/ Len(devices) = 0
    THEN SetDevices_KeepsOld(objs, devices, i + 1)
    ELSE LET device == devices[Len(devices)]
             new == IF device # None /\ device # ""
                    THEN Basename(device) ELSE None
         IN  SetDevices_KeepsOld([objs EXCEPT ![i].device = new],
                                 SubSeq(devices, 1, Len(devices) - 1), i + 1)

RECURSIVE SetDevices(_, _, _)
\* the loop of setup_osd_devices over the list, from entry i on
SetDevices(objs, devices, i) ==
    IF i > Len(objs) THEN objs
    ELSE IF objs[i].role # "osd" THEN SetDevices(objs, devices, i + 1)
    ELSE LET device == IF Len(devices) > 0 THEN devices[Len(devices)] ELSE None
             rest == IF Len(devices) > 0 THEN SubSeq(devices, 1, Len(devices) - 1)
                     ELSE devices
             new == IF device # None /\ device # ""       \* "if device:"
                    THEN Basename(device) ELSE None
         IN  SetDevices([objs EXCEPT ![i].device = new], rest, i + 1)

\* Ceph.setup_osd_devices(devices, node)
setup_osd_devices(objs, devices) == SetDevices(objs, devices, 1)

\* for ceph_demon in self.get_ceph_demons(): ceph_demon.containerized = ...
SetContainerized(objs, value) ==
    [i \in DOMAIN objs |->
        IF IsDemon(objs[i]) /\ is_active(objs[i])
        THEN [objs[i] EXCEPT !.containerized = IF value THEN "True" ELSE "False"]
        ELSE objs[i]]

RECURSIVE OsdNodesLoop(_, _)
\* for node in self.get_nodes("osd"): get_osd_devices, setup_osd_devices;
\* st holds the nodes' volumes, objects and reservations, n is the next node
OsdNodesLoop(st, n) ==
    IF n \notin Nodes \/ st.raised # None THEN st
    ELSE IF ~NodeHasRole(st.objs[n], "osd") THEN OsdNodesLoop(st, n + 1)
    ELSE LET g == get_osd_devices(st.vols[n], node_type[n], st.config) IN
         IF g.raised # None THEN [st EXCEPT !.raised = g.raised]
         ELSE OsdNodesLoop(
                [st EXCEPT !.vols[n] = g.vols,
                           !.resv[n] = @ + g.reserved,
                           !.objs[n] = setup_osd_devices(@, g.devs)],
                n + 1)

(***************************************************************************)
(* Topology operations                                                     *)
(***************************************************************************)
RoleNames == {"client", "osd", "mgr", "pool"}

InitRoleLists == {<<"pool">>, <<"osd">>, <<"installer", "client">>,
                  <<"mgr", "osd">>}

NodeTypes == {"baremetal", "openstack"}

Config(c, s, d) == [set |-> TRUE, containerized_deployment |-> c,
                    osd_scenario |-> s, dedicated_devices |-> d]

\* all.yml settings: the two scenarios without journals, a dedicated journal
\* device listed twice, and the non-collocated scenario without the key
Configs == {Config(TRUE, "collocated", NoList),
            Config(FALSE, "lvm", NoList),
            Config(FALSE, "non-collocated", <<"/dev/vdb", "/dev/vdb">>),
            Config(TRUE, "non-collocated", NoList)}

DeviceLists == {<<>>, <<"/dev/vdb">>, <<"", "/dev/vdc">>}

\* create_ceph_object making the osd object without taking a volume
CreateCephObject_NoAllocation(n, role) ==
    /\ Len(ceph_object_list[n]) < MaxObjects
    /\ LET r == CephObjectFactory_create_ceph_object(volume_list[n], role) IN
       /\ raised' = r.raised
       /\ ceph_object_list' =
            IF r.raised # None THEN ceph_object_list
            ELSE [ceph_object_list EXCEPT ![n] = Append(@, r.obj)]
    /\ UNCHANGED <<volume_list, node_type, ansible_config, reserved_volumes,
                   rhcs_version, notNodeVars>>

\* create_ceph_object appending an empty entry when the factory fails
CreateCephObject_AppendsOnFailure(n, role) ==
    /\ Len(ceph_object_list[n]) < MaxObjects
    /\ LET r == CephObjectFactory_create_ceph_object(volume_list[n], role) IN
       /\ raised' = r.raised
       /\ volume_list' = [volume_list EXCEPT ![n] = r.vols]
       /\ ceph_object_list' = [ceph_object_list EXCEPT ![n] = Append(@, r.obj)]
    /\ UNCHANGED <<node_type, ansible_config, reserved_volumes, rhcs_version,
                   notNodeVars>>

\* CephNode.create_ceph_object(role)
CreateCephObject(n, role) ==
    /\ Len(ceph_object_list[n]) < MaxObjects
    /\ LET r == CephObjectFactory_create_ceph_object(volume_list[n], role) IN
       /\ raised' = r.raised
       /\ volume_list' = [volume_list EXCEPT ![n] = r.vols]
       /\ ceph_object_list' =
            IF r.raised # None THEN ceph_object_list
            ELSE [ceph_object_list EXCEPT ![n] = Append(@, r.obj)]
    /\ UNCHANGED <<node_type, ansible_config, reserved_volumes, rhcs_version,
                   notNodeVars>>

\* remove_ceph_object leaving the volume of a removed osd allocated
RemoveCephObject_KeepsVolume(n, i) ==
    /\ i \in DOMAIN ceph_object_list[n]
    /\ ceph_object_list' = [ceph_object_list EXCEPT ![n] = RemoveAt(@, i)]
    /\ raised' = IF ceph_object_list[n][i].kind = "None" THEN "AttributeError"
                 ELSE None
    /\ UNCHANGED <<volume_list, node_type, ansible_config, reserved_volumes,
                   rhcs_version, notNodeVars>>

\* remove_ceph_object freeing a volume whatever the role of the object
RemoveCephObject_FreesAlways(n, i) ==
    /\ i \in DOMAIN ceph_object_list[n]
    /\ ceph_object_list' = [ceph_object_list EXCEPT ![n] = RemoveAt(@, i)]
    /\ IF ceph_object_list[n][i].kind = "None"
       THEN raised' = "AttributeError" /\ UNCHANGED volume_list
       ELSE IF Len(get_allocated_volumes(volume_list[n])) = 0
       THEN raised' = "IndexError" /\ UNCHANGED volume_list
       ELSE /\ raised' = None
            /\ volume_list' =
                 [volume_list EXCEPT ![n] =
                    SetStatus(@, get_allocated_volumes(@)[1], FREE)]
    /\ UNCHANGED <<node_type, ansible_config, reserved_volumes, rhcs_version,
                   notNodeVars>>

\* remove_ceph_object freeing every allocated volume with a removed osd
RemoveCephObject_FreesAll(n, i) ==
    /\ i \in DOMAIN ceph_object_list[n]
    /\ LET obj == ceph_object_list[n][i] IN
       /\ ceph_object_list' = [ceph_object_list EXCEPT ![n] = RemoveAt(@, i)]
       /\ IF obj.kind = "None"
          THEN raised' = "AttributeError" /\ UNCHANGED volume_list
          ELSE IF obj.role = "osd"
          THEN /\ raised' = None
               /\ volume_list' =
                    [volume_list EXCEPT ![n] =
                       [v \in DOMAIN @ |-> [@[v] EXCEPT !.status = FREE]]]
          ELSE raised' = None /\ UNCHANGED volume_list
    /\ UNCHANGED <<node_type, ansible_config, reserved_volumes, rhcs_version,
                   notNodeVars>>

\* CephNode.remove_ceph_object(ceph_object), the object being entry i
RemoveCephObject(n, i) ==
    /\ i \in DOMAIN ceph_object_list[n]
    /\ LET obj == ceph_object_list[n][i] IN
       /\ ceph_object_list' = [ceph_object_list EXCEPT ![n] = RemoveAt(@, i)]
       /\ IF obj.kind = "None"
          THEN raised' = "AttributeError" /\ UNCHANGED volume_list
          ELSE IF obj.role = "osd"
          THEN IF Len(get_allocated_volumes(volume_list[n])) = 0
               THEN raised' = "IndexError" /\ UNCHANGED volume_list
               ELSE /\ raised' = None
                    /\ volume_list' =
                         [volume_list EXCEPT ![n] =
                            SetStatus(@, get_allocated_volumes(@)[1], FREE)]
          ELSE raised' = None /\ UNCHANGED volume_list
    /\ UNCHANGED <<node_type, ansible_config, reserved_volumes, rhcs_version,
                   notNodeVars>>

\* Ceph.set_ansible_config(ansible_config)
SetAnsibleConfig(config) ==
    /\ ansible_config' = config
    /\ IF \E n \in Nodes : HasNone(ceph_object_list[n])
       THEN /\ raised' = "AttributeError"        \* in get_ceph_demons()
            /\ UNCHANGED <<volume_list, ceph_object_list, reserved_volumes>>
       ELSE LET objs1 == [n \in Nodes |->
                            SetContainerized(ceph_object_list[n],
                                             config.containerized_deployment)]
                st == OsdNodesLoop([vols |-> volume_list, objs |-> objs1,
                                    resv |-> reserved_volumes, raised |-> None,
                                    config |-> config], 1)
            IN  /\ raised' = st.raised
                /\ volume_list' = st.vols
                /\ ceph_object_list' = st.objs
                /\ reserved_volumes' = st.resv
    /\ UNCHANGED <<node_type, rhcs_version, notNodeVars>>

\* Ceph.get_osd_devices(node), called on its own
GetOsdDevices(n) ==
    /\ LET g == get_osd_devices(volume_list[n], node_type[n], ansible_config) IN
       /\ raised' = g.raised
       /\ volume_list' = [volume_list EXCEPT ![n] = g.vols]
       /\ reserved_volumes' = [reserved_volumes EXCEPT ![n] = @ + g.reserved]
    /\ UNCHANGED <<ceph_object_list, node_type, ansible_config, rhcs_version,
                   notNodeVars>>

\* Ceph.setup_osd_devices(devices, node), called on its own
SetupOsdDevices(n, devices) ==
    /\ IF HasNone(ceph_object_list[n])
       THEN raised' = "AttributeError" /\ UNCHANGED ceph_object_list
       ELSE /\ raised' = None
            /\ ceph_object_list' =
                 [ceph_object_list EXCEPT ![n] = setup_osd_devices(@, devices)]
    /\ UNCHANGED <<volume_list, node_type, ansible_config, reserved_volumes,
                   rhcs_version, notNodeVars>>

\* the major number of a version as LooseVersion compares it; without a
\* version set, Ceph.rhcs_version is DEFAULT_RHCS_VERSION, "4.3"
LooseMajor(version) ==
    CASE version = None -> 4 [] version = "2.5" -> 2 [] version = "4.3" -> 4

\* self.rhcs_version < "3"
rhcs_version_lt_3(version) == LooseMajor(version) < 3

RhcsVersions == {"2.5", "4.3"}

\* object.is_active = value: stored by a demon and by a generic object,
\* dropped by the setter of CephOsd
set_is_active(o, value) ==
    IF o.kind = "CephOsd" THEN o ELSE [o EXCEPT !.is_active = value]

\* a direct write to the is_active attribute of entry i of a node's list
SetIsActive(n, i, value) ==
    /\ i \in DOMAIN ceph_object_list[n]
    /\ IF ceph_object_list[n][i].kind = "None"
       THEN raised' = "AttributeError" /\ UNCHANGED ceph_object_list
       ELSE /\ raised' = None
            /\ ceph_object_list' =
                 [ceph_object_list EXCEPT ![n][i] = set_is_active(@, value)]
    /\ UNCHANGED <<volume_list, node_type, ansible_config, reserved_volumes,
                   rhcs_version, notNodeVars>>

\* the setter of Ceph.rhcs_version: the version is stored, then the mgr and
\* nfs objects of the nodes having these roles are switched by the version
SetRhcsVersion(version) ==
    /\ rhcs_version' = version
    /\ IF \E n \in Nodes, role \in {"mgr", "nfs"} :
            NodeHasRole(ceph_object_list[n], role) /\ HasNone(ceph_object_list[n])
       THEN raised' = "AttributeError" /\ UNCHANGED ceph_object_list
       ELSE /\ raised' = None
            /\ ceph_object_list' =
                 [n \in Nodes |->
                    [i \in DOMAIN ceph_object_list[n] |->
                       IF ceph_object_list[n][i].role \in {"mgr", "nfs"}
                       THEN set_is_active(ceph_object_list[n][i],
                                          ~rhcs_version_lt_3(version))
                       ELSE ceph_object_list[n][i]]]
    /\ UNCHANGED <<volume_list, node_type, ansible_config, reserved_volumes,
                   notNodeVars>>

\* the upgrade workflow before run() is called
RunIdle ==
    /\ run_pc = "idle" /\ run_config = <<>> /\ executor = FALSE
    /\ pending = None /\ result = "running" /\ run_exc = None /\ run_log = <<>>

\* check_health before it is called
HealthIdle ==
    /\ h_pc = "idle" /\ h_args = <<>> /\ h_clock = 0 /\ h_out = <<>>
    /\ h_status = <<>> /\ h_osd = <<>> /\ h_result = "running"

\* exec_command before it is called
ExecIdle ==
    /\ x_pc = "idle" /\ x_kw = <<>> /\ x_remote = <<>> /\ x_clock = 0
    /\ x_start = -1 /\ x_end_time = 0 /\ x_read = <<>> /\ x_stream = None
    /\ x_result = <<>>

\* no thread has called create_ceph_object
AllocIdle ==
    /\ a_pc = <<>> /\ a_free = <<>> /\ a_vols = <<>> /\ a_objs = <<>>
    /\ a_calls = <<>> /\ a_raised = <<>>

\* no connection manager has been constructed
ConnIdle ==
    /\ c_pc = "idle" /\ c_cur = None /\ c_mgr = <<>> /\ c_active = {}
    /\ c_opened = <<>> /\ c_sessions = 0 /\ c_host = <<>> /\ c_clock = 0
    /\ c_end_time = 0
    /\ c_attempts = 0 /\ c_was_active = FALSE /\ c_result = None
    /\ c_persisted = <<>>

\* no RolesContainer has been constructed
RolesIdle == role_list = <<>> /\ rc_raised = None

ProxyIdle ==
    /\ p_obj = <<>> /\ p_call = <<>> /\ p_node_call = <<>>
    /\ p_node_result = None /\ p_result = None

QueryIdle == q_cluster = <<>> /\ q_call = <<>> /\ q_result = <<>>

PkgIdle ==
    /\ k_cluster = <<>> /\ k_i = 0 /\ k_pc = "idle" /\ k_todo = <<>>
    /\ k_running = <<>> /\ k_spawned = {}

LaterIdle == ProxyIdle /\ QueryIdle /\ PkgIdle

\* the groups that none of the four specifications above uses
OthersIdle == AllocIdle /\ ConnIdle /\ RolesIdle /\ LaterIdle

InitNode ==
    /\ \E r \in [Nodes -> InitRoleLists], v \in [Nodes -> 0..MaxVolumes],
          t \in [Nodes -> NodeTypes] :
        /\ \A n \in Nodes : CephNode_init(r[n], v[n], t[n]).raised = None
        /\ volume_list = [n \in Nodes |-> CephNode_init(r[n], v[n], t[n]).volume_list]
        /\ ceph_object_list =
             [n \in Nodes |-> CephNode_init(r[n], v[n], t[n]).ceph_object_list]
        /\ node_type = t
    /\ ansible_config = Unset
    /\ reserved_volumes = [n \in Nodes |-> 0]
    /\ raised = None
    /\ rhcs_version = None
    /\ RunIdle
    /\ HealthIdle
    /\ ExecIdle
    /\ OthersIdle

NextNode ==
    \/ \E n \in Nodes, role \in RoleNames : CreateCephObject(n, role)
    \/ \E n \in Nodes, i \in 1..(MaxObjects + MaxVolumes) : RemoveCephObject(n, i)
    \/ \E config \in Configs : SetAnsibleConfig(config)
    \/ \E n \in Nodes : GetOsdDevices(n)
    \/ \E n \in Nodes, devices \in DeviceLists : SetupOsdDevices(n, devices)

SpecNode == InitNode /\ [][NextNode]_vars

\* the OSDs of a node under repeated device assignment
OsdDeviceLists == {<<>>, <<"/dev/vdb">>, <<"/dev/vdb", "/dev/vdc">>,
                   <<"", "/dev/vdc">>, <<"vdb", "/dev/vdb">>,
                   <<"/dev/vdb", "/dev/vdc", "/dev/vdd">>}

NextDevices ==
    \/ \E n \in Nodes, devices \in OsdDeviceLists : SetupOsdDevices(n, devices)
    \/ \E n \in Nodes, role \in RoleNames : CreateCephObject(n, role)
    \/ \E n \in Nodes, i \in 1..(MaxObjects + MaxVolumes) : RemoveCephObject(n, i)

SpecDevices == InitNode /\ [][NextDevices]_vars

\* two nodes of a cluster under the creation and removal of role-objects
NodePair == {1, 2}

InitVolumes ==
    /\ \E r \in [NodePair -> InitRoleLists], v \in [NodePair -> 0..MaxVolumes] :
        /\ \A n \in NodePair : CephNode_init(r[n], v[n], "openstack").raised = None
        /\ volume_list =
             [n \in NodePair |-> CephNode_init(r[n], v[n], "openstack").volume_list]
        /\ ceph_object_list =
             [n \in NodePair |->
                CephNode_init(r[n], v[n], "openstack").ceph_object_list]
    /\ node_type = [n \in NodePair |-> "openstack"]
    /\ ansible_config = Unset
    /\ reserved_volumes = [n \in NodePair |-> 0]
    /\ raised = None
    /\ rhcs_version = None
    /\ RunIdle
    /\ HealthIdle
    /\ ExecIdle
    /\ OthersIdle

\* the roles created: the one that takes a volume, one that does not, and the
\* one the factory has no object for
VolumeRoles == {"osd", "client", "pool"}

NextVolumes ==
    \/ \E n \in NodePair, role \in VolumeRoles : CreateCephObject(n, role)
    \/ \E n \in NodePair, i \in 1..(MaxObjects + MaxVolumes) : RemoveCephObject(n, i)

SpecVolumes == InitVolumes /\ [][NextVolumes]_vars

\* the role-objects of a node under the operations that bear on is_active
NextActive ==
    \/ \E n \in Nodes, role \in RoleNames : CreateCephObject(n, role)
    \/ \E n \in Nodes, i \in 1..(MaxObjects + MaxVolumes) : RemoveCephObject(n, i)
    \/ \E n \in Nodes, devices \in DeviceLists : SetupOsdDevices(n, devices)
    \/ \E n \in Nodes, i \in 1..(MaxObjects + MaxVolumes), value \in BOOLEAN :
          SetIsActive(n, i, value)
    \/ \E version \in RhcsVersions : SetRhcsVersion(version)

SpecActive == InitNode /\ [][NextActive]_vars

(***************************************************************************)
(* The upgrade workflow: tests/cephadm/test_cephadm_upgrade.py, run()      *)
(*                                                                         *)
(* Every call of a collaborator (Orch, RadosBench, the installer) either   *)
(* returns or raises; run_log records the calls in order.                  *)
(***************************************************************************)
\* the list handed to orch.get_cluster_state
DiagnosticCommands ==
    <<"ceph status", "ceph versions", "ceph orch ps -f yaml",
      "ceph orch ls -f yaml", "ceph orch upgrade status", "ceph mgr dump",
      "ceph mon stat">>

\* rhbuild.startswith("5") on the builds of the model
StartsWith5(rhbuild) == rhbuild \in {"5.1", "5"}

RunConfigs ==
    [benchmark : BOOLEAN,              \* config.get("benchmark")
     verify_cluster_health : BOOLEAN,  \* config.get("verify_cluster_health")
     rhbuild : {None, "4.3", "5.1"},   \* config.get("rhbuild")
     args_image : {None, "16.2.8-100"}, \* config["args"]["image"], if supplied
     has_client : BOOLEAN,             \* the cluster has a node of role client
     has_installer : BOOLEAN]          \* the cluster has an installer object

Logged(call, outcome) == [call |-> call, outcome |-> outcome, cmds |-> <<>>]

\* an exception inside the try block: "except BaseException" takes it,
\* return 1 is held back until the finally clause has run
Caught(call, exc) ==
    /\ run_log' = Append(run_log, Logged(call, exc))
    /\ run_exc' = exc
    /\ pending' = "return 1"
    /\ run_pc' = "teardown"
    /\ UNCHANGED <<run_config, executor, result>>

\* an exception outside the try block or inside the finally clause
Propagated(call, exc) ==
    /\ run_log' = Append(run_log, Logged(call, exc))
    /\ run_exc' = exc
    /\ result' = "exception"
    /\ run_pc' = "done"
    /\ UNCHANGED <<run_config, executor, pending>>

Returned(call, outcome, next) ==
    /\ run_log' = Append(run_log, Logged(call, outcome))
    /\ run_pc' = next
    /\ UNCHANGED <<run_config, executor, pending, result, run_exc>>

\* orch = Orch(cluster=ceph_cluster, **config)
NewOrch ==
    /\ run_pc = "Orch"
    /\ \/ Returned("Orch", "ok", "get_nodes")
       \/ Propagated("Orch", "Exception")
    /\ UNCHANGED notRunVars

\* client = ceph_cluster.get_nodes(role="client")[0]
ClientLookup ==
    /\ run_pc = "get_nodes"
    /\ IF run_config.has_client
       THEN Returned("get_nodes", "ok", "RadosBench")
       ELSE Propagated("get_nodes", "IndexError")
    /\ UNCHANGED notRunVars

\* if config.get("benchmark"): executor = RadosBench(...)
NewRadosBench ==
    /\ run_pc = "RadosBench"
    /\ IF run_config.benchmark
       THEN \/ /\ run_log' = Append(run_log, Logged("RadosBench", "ok"))
               /\ executor' = TRUE
               /\ run_pc' = "executor.run"
               /\ UNCHANGED <<run_config, pending, result, run_exc>>
            \/ Propagated("RadosBench", "Exception")
       ELSE /\ run_pc' = "executor.run"
            /\ UNCHANGED <<run_config, executor, pending, result, run_exc, run_log>>
    /\ UNCHANGED notRunVars

\* try: if executor: executor.run(config=config["benchmark"])
BenchmarkRun ==
    /\ run_pc = "executor.run"
    /\ IF executor
       THEN \/ Returned("executor.run", "ok", "set_tool_repo")
            \/ Caught("executor.run", "Exception")
       ELSE /\ run_pc' = "set_tool_repo"
            /\ UNCHANGED <<run_config, executor, pending, result, run_exc, run_log>>
    /\ UNCHANGED notRunVars

\* orch.set_tool_repo()
SetToolRepo ==
    /\ run_pc = "set_tool_repo"
    /\ \/ Returned("set_tool_repo", "ok", "install")
       \/ Caught("set_tool_repo", "CommandFailed")
    /\ UNCHANGED notRunVars

\* orch.install()
Install ==
    /\ run_pc = "install"
    /\ \/ Returned("install", "ok", "upgrade_check")
       \/ Caught("install", "CommandFailed")
    /\ UNCHANGED notRunVars

\* orch.upgrade_check(image=config.get("container_image"))
UpgradeCheck ==
    /\ run_pc = "upgrade_check"
    /\ \/ Returned("upgrade_check", "ok", "rhbuild")
       \/ Caught("upgrade_check", "CommandFailed")
    /\ UNCHANGED notRunVars

\* the installed ceph-common queried whatever the build
QueryCephCommon_AnyBuild ==
    /\ run_pc = "rhbuild"
    /\ IF run_config.rhbuild = None
       THEN Caught("rhbuild.startswith", "AttributeError")
       ELSE IF ~run_config.has_installer
       THEN Caught("installer.exec_command", "AttributeError")
       ELSE \/ Returned("rpm -qa | grep ceph-common", "16.2.7", "upgrade_stop")
            \/ Returned("rpm -qa | grep ceph-common", "16.2.8", "start_upgrade")
            \/ Caught("rpm -qa | grep ceph-common", "CommandFailed")
    /\ UNCHANGED notRunVars

\* installer = get_ceph_object("installer"); rhbuild.startswith("5");
\* ceph_version, rc = installer.exec_command("rpm -qa | grep ceph-common")
QueryCephCommon ==
    /\ run_pc = "rhbuild"
    /\ IF run_config.rhbuild = None
       THEN Caught("rhbuild.startswith", "AttributeError")
       ELSE IF ~StartsWith5(run_config.rhbuild)
       THEN /\ run_pc' = "start_upgrade"
            /\ UNCHANGED <<run_config, executor, pending, result, run_exc, run_log>>
       ELSE IF ~run_config.has_installer
       THEN Caught("installer.exec_command", "AttributeError")
       ELSE \/ Returned("rpm -qa | grep ceph-common", "16.2.7", "upgrade_stop")
            \/ Returned("rpm -qa | grep ceph-common", "16.2.8", "start_upgrade")
            \/ Caught("rpm -qa | grep ceph-common", "CommandFailed")
    /\ UNCHANGED notRunVars

\* installer.exec_command(cmd="cephadm -v shell -- ceph orch upgrade stop")
UpgradeStop ==
    /\ run_pc = "upgrade_stop"
    /\ \/ Returned("ceph orch upgrade stop", "ok", "start_upgrade")
       \/ Caught("ceph orch upgrade stop", "CommandFailed")
    /\ UNCHANGED notRunVars

\* config.update({"args": {"image": "latest"}}); orch.start_upgrade(config)
StartUpgrade ==
    /\ run_pc = "start_upgrade"
    /\ run_config' = [run_config EXCEPT !.args_image = "latest"]
    /\ \/ /\ run_log' = Append(run_log, Logged("start_upgrade", "ok"))
          /\ run_pc' = "monitor_upgrade_status"
          /\ UNCHANGED <<executor, pending, result, run_exc>>
       \/ /\ run_log' = Append(run_log, Logged("start_upgrade", "CommandFailed"))
          /\ run_exc' = "CommandFailed"
          /\ pending' = "return 1"
          /\ run_pc' = "teardown"
          /\ UNCHANGED <<executor, result>>
    /\ UNCHANGED notRunVars

\* orch.monitor_upgrade_status()
MonitorUpgradeStatus ==
    /\ run_pc = "monitor_upgrade_status"
    /\ \/ Returned("monitor_upgrade_status", "ok", "check_health")
       \/ Caught("monitor_upgrade_status", "Exception")
    /\ UNCHANGED notRunVars

\* the health check with its value dropped: no UpgradeFailure is raised
VerifyClusterHealth_ValueDropped ==
    /\ run_pc = "check_health"
    /\ IF run_config.verify_cluster_health
       THEN \/ Returned("check_health", "0", "teardown")
            \/ Returned("check_health", "1", "teardown")
            \/ Caught("check_health", "CommandFailed")
       ELSE /\ run_pc' = "teardown"
            /\ UNCHANGED <<run_config, executor, pending, result, run_exc, run_log>>
    /\ UNCHANGED notRunVars

\* if config.get("verify_cluster_health"):
\*     if orch.cluster.check_health(...): raise UpgradeFailure(...)
VerifyClusterHealth ==
    /\ run_pc = "check_health"
    /\ IF run_config.verify_cluster_health
       THEN \/ Returned("check_health", "0", "teardown")
            \/ /\ run_log' = Append(run_log, Logged("check_health", "1"))
               /\ run_exc' = "UpgradeFailure"
               /\ pending' = "return 1"
               /\ run_pc' = "teardown"
               /\ UNCHANGED <<run_config, executor, result>>
            \/ Caught("check_health", "CommandFailed")
       ELSE /\ run_pc' = "teardown"
            /\ UNCHANGED <<run_config, executor, pending, result, run_exc, run_log>>
    /\ UNCHANGED notRunVars

\* finally: if executor: executor.teardown()
Teardown ==
    /\ run_pc = "teardown"
    /\ IF executor
       THEN \/ Returned("executor.teardown", "ok", "get_cluster_state")
            \/ Propagated("executor.teardown", "Exception")
       ELSE /\ run_pc' = "get_cluster_state"
            /\ UNCHANGED <<run_config, executor, pending, result, run_exc, run_log>>
    /\ UNCHANGED notRunVars

\* finally: orch.get_cluster_state([...]); then the held return 1, or return 0
GetClusterState ==
    /\ run_pc = "get_cluster_state"
    /\ \/ /\ run_log' = Append(run_log,
                [call |-> "get_cluster_state", outcome |-> "ok",
                 cmds |-> DiagnosticCommands])
          /\ result' = IF pending = "return 1" THEN "1" ELSE "0"
          /\ run_pc' = "done"
          /\ UNCHANGED <<run_config, executor, pending, run_exc>>
       \/ /\ run_log' = Append(run_log,
                [call |-> "get_cluster_state", outcome |-> "CommandFailed",
                 cmds |-> DiagnosticCommands])
          /\ run_exc' = "CommandFailed"
          /\ result' = "exception"
          /\ run_pc' = "done"
          /\ UNCHANGED <<run_config, executor, pending>>
    /\ UNCHANGED notRunVars

\* the topology before any node exists
NodeIdle ==
    /\ volume_list = <<>> /\ ceph_object_list = <<>> /\ node_type = <<>>
    /\ ansible_config = Unset /\ reserved_volumes = <<>> /\ raised = None
    /\ rhcs_version = None

InitRun ==
    /\ run_pc = "Orch"
    /\ run_config \in RunConfigs
    /\ executor = FALSE
    /\ pending = None
    /\ result = "running"
    /\ run_exc = None
    /\ run_log = <<>>
    /\ NodeIdle
    /\ HealthIdle
    /\ ExecIdle
    /\ OthersIdle

NextRun ==
    \/ NewOrch
    \/ ClientLookup
    \/ NewRadosBench
    \/ BenchmarkRun
    \/ SetToolRepo
    \/ Install
    \/ UpgradeCheck
    \/ QueryCephCommon
    \/ UpgradeStop
    \/ StartUpgrade
    \/ MonitorUpgradeStatus
    \/ VerifyClusterHealth
    \/ Teardown
    \/ GetClusterState

SpecRun == InitRun /\ [][NextRun]_vars

(***************************************************************************)
(* Ceph.check_health and Ceph.osd_check                                    *)
(*                                                                         *)
(* A status text is kept as the set of the indicators that occur in it.    *)
(***************************************************************************)
pending_states == {"peering", "activating", "creating"}
valid_states == {"active+clean"}

\* "ceph -s" outputs
StatusTexts ==
    {{}, {"active+clean"}, {"active+clean", "peering"}, {"creating"},
     {"active+clean", "HEALTH_ERR"}, {"active+clean", "activating", "HEALTH_ERR"},
     {"HEALTH_ERR"}}

\* the output of "ceph quorum_status -f json" holds none of the indicators
QuorumJson(size) == [kind |-> "quorum_status", text |-> {}, quorum |-> size]

StatusOut(text) == [kind |-> "status", text |-> text, quorum |-> 0]

\* out = str()
EmptyOut == [kind |-> "str", text |-> {}, quorum |-> 0]

\* rhbuild.split(".")[0], as the sequence of its digits
Major(rhbuild) ==
    CASE rhbuild = "4.3" -> <<4>> [] rhbuild = "5.1" -> <<5>>
      [] rhbuild = "10.0" -> <<1, 0>>

RECURSIVE StrGE(_, _)
\* a >= b on Python strings of digits: character by character, a proper
\* prefix being the smaller
StrGE(a, b) ==
    IF b = <<>> THEN TRUE
    ELSE IF a = <<>> THEN FALSE
    ELSE IF Head(a) # Head(b) THEN Head(a) > Head(b)
    ELSE StrGE(Tail(a), Tail(b))

\* pacific = True if (rhbuild and rhbuild.split(".")[0] >= "5") else False
pacific(rhbuild) == rhbuild # None /\ StrGE(Major(rhbuild), <<5>>)

\* the value osd_check returns for the counts of a status report
osd_check(num_osds, num_up_osds, num_in_osds) ==
    IF num_osds # num_up_osds THEN "1"
    ELSE IF num_osds # num_in_osds THEN "1"
    ELSE "0"

HealthArgs ==
    [rhbuild : {None, "4.3", "5.1", "10.0"},
     timeout : {0, 10},
     expected_mons : 0..MaxMons]     \* self.ceph_demon_stat.get("mon"), 0: no key

HealthRaise(exc) ==
    /\ h_result' = "exception"
    /\ h_pc' = "done"
    /\ UNCHANGED <<h_args, h_clock, h_out, h_status, h_osd>>

HealthReturn(value) ==
    /\ h_result' = value
    /\ h_pc' = "done"
    /\ UNCHANGED <<h_args, h_clock, h_out, h_status, h_osd>>

\* the while loop without its sleep(5): no time passes between two polls
PollStatus_NoSleep ==
    /\ h_pc = "poll"
    /\ h_clock <= h_args.timeout
    /\ \/ \E text \in StatusTexts :
            /\ h_out' = StatusOut(text)
            /\ h_status' = text
            /\ IF text \cap pending_states = {} /\ valid_states \subseteq text
               THEN h_pc' = "after_loop"
               ELSE h_pc' = "poll"
            /\ UNCHANGED <<h_args, h_clock, h_osd, h_result>>
       \/ HealthRaise("CommandFailed")
    /\ UNCHANGED notHealthVars

\* one turn of the while loop: "ceph -s", the test of the states, sleep(5)
PollStatus ==
    /\ h_pc = "poll"
    /\ h_clock <= h_args.timeout
    /\ \/ \E text \in StatusTexts :
            /\ h_out' = StatusOut(text)
            /\ h_status' = text
            /\ IF text \cap pending_states = {} /\ valid_states \subseteq text
               THEN h_pc' = "after_loop" /\ UNCHANGED h_clock          \* break
               ELSE h_pc' = "poll" /\ h_clock' = h_clock + 5
            /\ UNCHANGED <<h_args, h_osd, h_result>>
       \/ HealthRaise("CommandFailed")
    /\ UNCHANGED notHealthVars

\* the while condition fails: the timeout has passed
PollTimeout ==
    /\ h_pc = "poll"
    /\ ~(h_clock <= h_args.timeout)
    /\ h_pc' = "after_loop"
    /\ UNCHANGED <<h_args, h_clock, h_out, h_status, h_osd, h_result>>
    /\ UNCHANGED notHealthVars

\* if not all(state in out for state in valid_states): return 1
\* self.osd_check(client, ...): its value is dropped
CheckStatesAndOsds ==
    /\ h_pc = "after_loop"
    /\ IF ~(valid_states \subseteq h_out.text)
       THEN HealthReturn("1")
       ELSE \/ \E n \in 1..MaxOsds, down \in 0..MaxOsds, out \in 0..MaxOsds :
                 /\ down <= n /\ out <= n
                 /\ h_osd' = [num_osds |-> n, num_up_osds |-> n - down,
                              num_in_osds |-> n - out,
                              rc |-> osd_check(n, n - down, n - out)]
                 /\ h_pc' = IF pacific(h_args.rhbuild) THEN "health_err" ELSE "quorum"
                 /\ UNCHANGED <<h_args, h_clock, h_out, h_status, h_result>>
            \/ HealthRaise("CommandFailed")
    /\ UNCHANGED notHealthVars

\* if not pacific: out, _ = "ceph quorum_status -f json"; the quorum size
\* against self.ceph_demon_stat["mon"]
CheckQuorum ==
    /\ h_pc = "quorum"
    /\ \/ \E size \in 0..MaxMons :
            /\ h_out' = QuorumJson(size)
            /\ IF h_args.expected_mons = 0
               THEN /\ h_result' = "exception" /\ h_pc' = "done"    \* KeyError
               ELSE IF size # h_args.expected_mons
               THEN h_result' = "1" /\ h_pc' = "done"
               ELSE h_pc' = "health_err" /\ UNCHANGED h_result
            /\ UNCHANGED <<h_args, h_clock, h_status, h_osd>>
       \/ HealthRaise("CommandFailed")
    /\ UNCHANGED notHealthVars

\* the last test of check_health inverted
CheckHealthErr_Inverted ==
    /\ h_pc = "health_err"
    /\ HealthReturn(IF "HEALTH_ERR" \in h_out.text THEN "0" ELSE "1")
    /\ UNCHANGED notHealthVars

\* if "HEALTH_ERR" in out: return 1;  return 0
CheckHealthErr ==
    /\ h_pc = "health_err"
    /\ HealthReturn(IF "HEALTH_ERR" \in h_out.text THEN "1" ELSE "0")
    /\ UNCHANGED notHealthVars

InitHealth ==
    /\ h_pc = "poll"
    /\ h_args \in HealthArgs
    /\ h_clock = 0
    /\ h_out = EmptyOut
    /\ h_status = {}
    /\ h_osd = [num_osds |-> 0, num_up_osds |-> 0, num_in_osds |-> 0, rc |-> None]
    /\ h_result = "running"
    /\ NodeIdle
    /\ RunIdle
    /\ ExecIdle
    /\ OthersIdle

NextHealth ==
    \/ PollStatus
    \/ PollTimeout
    \/ CheckStatesAndOsds
    \/ CheckQuorum
    \/ CheckHealthErr

SpecHealth == InitHealth /\ [][NextHealth]_vars

\* check_health runs on: the call of a command returns or raises, sleep(5)
\* ends, and the statement after it is executed
SpecHealthLive == SpecHealth /\ WF_vars(NextHealth)

(***************************************************************************)
(* CephNode.exec_command, CephNode.long_running, read_stream               *)
(*                                                                         *)
(* Time passes in sleep(1) and in a recv that has to wait; every other     *)
(* statement takes no time.  The remote process exits exit_at seconds      *)
(* after the command was issued (Never: it does not exit); its streams     *)
(* reach end-of-file when it exits.  A recv on the channel waits for data  *)
(* or end-of-file for at most the channel timeout, then raises             *)
(* socket.timeout; without a channel timeout it waits for ever.            *)
(***************************************************************************)
Never == -1
ShortTimeout == 600        \* the default of a command that is not long_running
LongTimeout == 3600        \* the default of a long_running command

Max(a, b) == IF a >= b THEN a ELSE b

Kws ==
    [verbose : {"absent", "True", "False"},      \* "verbose" in kw
     check_ec : {"absent", "True", "False"},
     long_running : BOOLEAN,
     pretty_print : BOOLEAN,
     timeout : {"absent", "notimeout", "3"},
     run_once : BOOLEAN]                          \* self.run_once of the node

\* the host: whether a session can be established with it within the outage
\* timeout, when the remote process exits, and its exit code
Remotes == [reachable : BOOLEAN, exit_at : {Never} \cup 0..MaxExit, exit_code : {0, 1}]

\* the timeout long_running settles on; 0 stands for None
Timeout(kw) ==
    CASE kw.timeout = "notimeout" -> 0
      [] kw.timeout = "absent" -> IF kw.long_running THEN LongTimeout ELSE ShortTimeout
      [] kw.timeout = "3" -> 3

\* the moment the remote process exits
ExitTime == IF x_remote.exit_at = Never THEN Never ELSE x_start + x_remote.exit_at

\* check_timeout(end_time, timeout) raises TimeoutException
check_timeout(now, end_time, timeout) == timeout # 0 /\ now >= end_time

Result(kind, cause, shape) == [kind |-> kind, cause |-> cause, shape |-> shape]

Running == Result("running", None, None)

\* exec_command ends by raising
ExecRaise(kind, cause, now) ==
    /\ x_result' = Result(kind, cause, None)
    /\ x_pc' = "done"
    /\ x_clock' = now
    /\ UNCHANGED <<x_kw, x_remote, x_start, x_end_time, x_read, x_stream>>

\* the except clauses of long_running: all that is raised as CommandFailed
long_running_except_AllCommandFailed(exc) == "CommandFailed"

\* the except clauses of long_running: what is raised for an exception of the
\* try block
long_running_except(exc) ==
    CASE exc = "socket.timeout" -> "SocketTimeoutException"
      [] exc = "TimeoutException" -> "CommandFailed"
      [] OTHER -> "CommandFailed"

\* an exception inside the try block of long_running
LongRunningRaise(exc, now) == ExecRaise(long_running_except(exc), exc, now)

\* exec_command up to channel.exec_command(cmd): the keepalive refresh when
\* run_once is set, the session of the chosen connection, the command, _end_time
IssueCommand ==
    /\ x_pc = "exec_command"
    /\ \/ /\ x_kw.run_once /\ ~x_remote.reachable    \* self.ssh_transport()
          /\ ExecRaise("AssertionError", "set_keepalive", x_clock)
       \/ /\ ~x_kw.run_once /\ ~x_remote.reachable   \* ssh() in long_running
          /\ LongRunningRaise("AssertionError", x_clock)
       \/ /\ x_remote.reachable                      \* open_session fails
          /\ LongRunningRaise("SSHException", x_clock)
       \/ /\ x_remote.reachable
          /\ x_start' = x_clock
          /\ x_end_time' = IF Timeout(x_kw) # 0 THEN x_clock + Timeout(x_kw) ELSE 0
          /\ x_pc' = "loop"
          /\ UNCHANGED <<x_kw, x_remote, x_clock, x_read, x_stream, x_result>>
    /\ UNCHANGED notExecVars

\* while not channel.exit_status_ready(): sleep(1)
LoopTest ==
    /\ x_pc = "loop"
    /\ IF ExitTime # Never /\ x_clock >= ExitTime
       THEN /\ x_pc' = "drain"
            /\ x_stream' = "out"
            /\ x_end_time' = x_clock + 10            \* _new_timeout
            /\ UNCHANGED x_clock
       ELSE /\ x_clock < MaxClock
            /\ x_clock' = x_clock + 1
            /\ x_pc' = "recv_ready"
            /\ x_stream' = "out"
            /\ UNCHANGED x_end_time
    /\ UNCHANGED <<x_kw, x_remote, x_start, x_read, x_result>>
    /\ UNCHANGED notExecVars

\* where the loop goes on after the read of a stream
AfterStream ==
    IF x_stream = "out" THEN x_pc' = "recv_ready" /\ x_stream' = "err"
    ELSE x_pc' = "check_timeout" /\ x_stream' = None

\* if channel.recv_ready(): / if channel.recv_stderr_ready(): read_stream(...),
\* whose first recv returns the data at once, followed by check_timeout
RecvReady ==
    /\ x_pc = "recv_ready"
    /\ \/ /\ x_read[x_stream] < MaxChunks
          /\ IF check_timeout(x_clock, x_end_time, Timeout(x_kw))
             THEN LongRunningRaise("TimeoutException", x_clock)
             ELSE /\ x_read' = [x_read EXCEPT ![x_stream] = @ + 1]
                  /\ x_pc' = "recv"
                  /\ UNCHANGED <<x_kw, x_remote, x_clock, x_start, x_end_time,
                                 x_stream, x_result>>
       \/ /\ AfterStream
          /\ UNCHANGED <<x_kw, x_remote, x_clock, x_start, x_end_time, x_read,
                         x_result>>
    /\ UNCHANGED notExecVars

\* read_stream inside the loop: _data = _stream(2048) after the first chunk
Recv ==
    /\ x_pc = "recv"
    /\ LET T == Timeout(x_kw)
           E == ExitTime
       IN  \/ \E d \in 0..MaxDelay :                       \* more data
                /\ x_read[x_stream] < MaxChunks
                /\ T = 0 \/ d < T
                /\ E = Never \/ x_clock + d <= E
                /\ IF check_timeout(x_clock + d, x_end_time, T)
                   THEN LongRunningRaise("TimeoutException", x_clock + d)
                   ELSE /\ x_read' = [x_read EXCEPT ![x_stream] = @ + 1]
                        /\ x_clock' = x_clock + d
                        /\ UNCHANGED <<x_kw, x_remote, x_start, x_end_time, x_pc,
                                       x_stream, x_result>>
           \/ /\ E # Never                                  \* end of file
              /\ T = 0 \/ E - x_clock <= T
              /\ x_clock' = Max(x_clock, E)
              /\ AfterStream
              /\ UNCHANGED <<x_kw, x_remote, x_start, x_end_time, x_read, x_result>>
           \/ /\ T # 0                                      \* socket.timeout
              /\ E = Never \/ E - x_clock >= T
              /\ LongRunningRaise("socket.timeout", x_clock + T)
           \/ /\ T = 0 /\ E = Never                         \* waits for ever
              /\ x_pc' = "blocked"
              /\ UNCHANGED <<x_kw, x_remote, x_clock, x_start, x_end_time, x_read,
                             x_stream, x_result>>
    /\ UNCHANGED notExecVars

\* check_timeout(_end_time, timeout) at the end of a turn of the loop
CheckTimeout ==
    /\ x_pc = "check_timeout"
    /\ IF check_timeout(x_clock, x_end_time, Timeout(x_kw))
       THEN LongRunningRaise("TimeoutException", x_clock)
       ELSE /\ x_pc' = "loop"
            /\ UNCHANGED <<x_kw, x_remote, x_clock, x_start, x_end_time, x_read,
                           x_stream, x_result>>
    /\ UNCHANGED notExecVars

\* the last read after the exit: stdout, then stderr, under _new_timeout;
\* whatever it raises is logged and dropped
Drain ==
    /\ x_pc = "drain"
    /\ \/ /\ x_read[x_stream] < MaxChunks                   \* residual data
          /\ x_read' = [x_read EXCEPT ![x_stream] = @ + 1]
          /\ UNCHANGED <<x_pc, x_stream, x_clock>>
       \/ /\ IF x_stream = "out"                            \* end of file
             THEN x_pc' = "drain" /\ x_stream' = "err"
             ELSE x_pc' = "post" /\ x_stream' = None
          /\ UNCHANGED <<x_read, x_clock>>
       \/ /\ Timeout(x_kw) # 0           \* the stream stays open: socket.timeout
          /\ x_clock' = x_clock + Timeout(x_kw)
          /\ x_pc' = "post" /\ x_stream' = None
          /\ UNCHANGED x_read
       \/ /\ Timeout(x_kw) = 0           \* the stream stays open: waits for ever
          /\ x_pc' = "blocked"
          /\ UNCHANGED <<x_read, x_stream, x_clock>>
    /\ UNCHANGED <<x_kw, x_remote, x_start, x_end_time, x_result>>
    /\ UNCHANGED notExecVars

\* _exit = channel.recv_exit_status() and the rest of exec_command
ReturnOrRaise ==
    /\ x_pc = "post"
    /\ LET _exit == x_remote.exit_code IN
       x_result' =
         IF x_kw.verbose # "absent"                       \* "verbose" in kw
         THEN Result("returned", None, "out, err, exit, time")
         ELSE IF x_kw.long_running
         THEN IF x_kw.check_ec = "True" /\ _exit # 0      \* kw.get("check_ec", False)
              THEN Result("CommandFailed", "exit code", None)
              ELSE Result("returned", None, "exit")
         ELSE IF x_kw.check_ec # "False" /\ _exit # 0     \* kw.get("check_ec", True)
              THEN Result("CommandFailed", "exit code", None)
              ELSE Result("returned", None, "out, err")
    /\ x_pc' = "done"
    /\ UNCHANGED <<x_kw, x_remote, x_clock, x_start, x_end_time, x_read, x_stream>>
    /\ UNCHANGED notExecVars

InitExec ==
    /\ x_pc = "exec_command"
    /\ x_kw \in Kws
    /\ x_remote \in Remotes
    /\ x_clock = 0
    /\ x_start = -1
    /\ x_end_time = 0
    /\ x_read = [out |-> 0, err |-> 0]
    /\ x_stream = None
    /\ x_result = Running
    /\ NodeIdle
    /\ RunIdle
    /\ HealthIdle
    /\ OthersIdle

NextExec ==
    \/ IssueCommand
    \/ LoopTest
    \/ RecvReady
    \/ Recv
    \/ CheckTimeout
    \/ Drain
    \/ ReturnOrRaise

SpecExec == InitExec /\ [][NextExec]_vars

(***************************************************************************)
(* Threads calling CephNode.create_ceph_object("osd") on the same node.    *)
(*                                                                         *)
(* Neither CephNode nor CephObjectFactory holds a lock; a thread can be    *)
(* suspended between any two statements.  The statements of a call are:    *)
(* free_volume_list = self.node.get_free_volumes(); the test of its length *)
(* with the assignment to free_volume_list[0].status or the raise; and     *)
(* self.ceph_object_list.append(ceph_object).                              *)
(***************************************************************************)
Threads == {1, 2}

\* free_volume_list = self.node.get_free_volumes()
ThreadGetFreeVolumes(t) ==
    /\ a_pc[t] = "idle"
    /\ a_calls[t] < MaxCalls
    /\ a_calls' = [a_calls EXCEPT ![t] = @ + 1]
    /\ a_free' = [a_free EXCEPT ![t] = get_free_volumes(a_vols)]
    /\ a_raised' = [a_raised EXCEPT ![t] = None]
    /\ a_pc' = [a_pc EXCEPT ![t] = "allocate"]
    /\ UNCHANGED <<a_vols, a_objs, notAllocVars>>

\* if len(free_volume_list) > 0: free_volume_list[0].status = ALLOCATED
\* else: raise RuntimeError
ThreadAllocate(t) ==
    /\ a_pc[t] = "allocate"
    /\ IF Len(a_free[t]) > 0
       THEN /\ a_vols' = SetStatus(a_vols, a_free[t][1], ALLOCATED)
            /\ a_pc' = [a_pc EXCEPT ![t] = "append"]
            /\ UNCHANGED a_raised
       ELSE /\ a_raised' = [a_raised EXCEPT ![t] = "RuntimeError"]
            /\ a_pc' = [a_pc EXCEPT ![t] = "idle"]
            /\ UNCHANGED a_vols
    /\ a_free' = [a_free EXCEPT ![t] = <<>>]
    /\ UNCHANGED <<a_objs, a_calls, notAllocVars>>

\* return CephOsd(self.node); self.ceph_object_list.append(ceph_object)
ThreadAppend(t) ==
    /\ a_pc[t] = "append"
    /\ a_objs' = Append(a_objs, "osd")
    /\ a_pc' = [a_pc EXCEPT ![t] = "idle"]
    /\ UNCHANGED <<a_vols, a_free, a_calls, a_raised, notAllocVars>>

\* a node constructed without the osd role: all its volumes are free
InitAlloc ==
    /\ a_pc = [t \in Threads |-> "idle"]
    /\ a_free = [t \in Threads |-> <<>>]
    /\ \E n \in 0..MaxVolumes : a_vols = [i \in 1..n |-> NodeVolume(FREE, None)]
    /\ a_objs = <<>>
    /\ a_calls = [t \in Threads |-> 0]
    /\ a_raised = [t \in Threads |-> None]
    /\ NodeIdle
    /\ RunIdle
    /\ HealthIdle
    /\ ExecIdle
    /\ ConnIdle
    /\ RolesIdle
    /\ LaterIdle

NextAlloc ==
    \/ \E t \in Threads : ThreadGetFreeVolumes(t)
    \/ \E t \in Threads : ThreadAllocate(t)
    \/ \E t \in Threads : ThreadAppend(t)

SpecAlloc == InitAlloc /\ [][NextAlloc]_vars

(***************************************************************************)
(* SSHConnectionManager (get_client, __connect, __getstate__) and the      *)
(* persisted state of a CephNode (__getstate__, __setstate__).             *)
(*                                                                         *)
(* A session is numbered from 1; 0 stands for None.  A manager's client    *)
(* field is the transport of its paramiko client, its transport field is   *)
(* the attribute __transport.  Time passes in a connection attempt (up to  *)
(* MaxDelay seconds) and in sleep(10).                                     *)
(***************************************************************************)
Managers == {"root_connection", "connection"}

RetryInterval == 10                  \* sleep(10) between two attempts

OutageTimeouts == {1, 12}            \* outage_timeout, in seconds

\* SSHConnectionManager.__init__: a client without a session, no transport
FreshManager == [transport |-> 0, client |-> 0]

\* self.__transport and self.__transport.is_active()
TransportIsActive(m) == c_mgr[m].transport # 0 /\ c_mgr[m].transport \in c_active

\* get_client connecting whatever the state of the stored transport
GetClient_AlwaysConnects(m) ==
    /\ c_pc = "idle"
    /\ c_cur' = m
    /\ c_was_active' = (c_mgr[m].transport \in c_active)
    /\ c_attempts' = 0
    /\ c_clock' = 0
    /\ c_pc' = "connect"
    /\ c_end_time' = c_host.outage_timeout
    /\ c_result' = None
    /\ UNCHANGED <<c_mgr, c_active, c_opened, c_sessions, c_host, c_persisted>>
    /\ UNCHANGED notConnVars

\* get_client ends without having to connect, or starts __connect
GetClient(m) ==
    /\ c_pc = "idle"
    /\ c_cur' = m
    /\ c_was_active' = (c_mgr[m].transport \in c_active)
    /\ c_attempts' = 0
    /\ c_clock' = 0
    /\ IF ~TransportIsActive(m)
       THEN /\ c_pc' = "connect"
            /\ c_end_time' = c_host.outage_timeout
            /\ c_result' = None
       ELSE /\ c_result' = "returned"
            /\ UNCHANGED <<c_pc, c_end_time>>
    /\ UNCHANGED <<c_mgr, c_active, c_opened, c_sessions, c_host, c_persisted>>
    /\ UNCHANGED notConnVars

\* one turn of the loop of __connect: self.__client.connect(...) succeeds,
\* and get_client stores the transport of the client, or it raises
ConnectAttempt ==
    /\ c_pc = "connect"
    /\ c_end_time > c_clock
    /\ \E d \in 0..MaxDelay :
        /\ c_clock' = c_clock + d
        /\ c_attempts' = c_attempts + 1
        /\ \/ /\ c_host.accepts
              /\ c_sessions < MaxSessions
              /\ LET s == c_sessions + 1 IN
                 /\ c_sessions' = s
                 /\ c_active' = c_active \cup {s}
                 /\ c_opened' = [c_opened EXCEPT ![c_cur] = @ \cup {s}]
                 /\ c_mgr' = [c_mgr EXCEPT ![c_cur] = [transport |-> s, client |-> s]]
              /\ c_result' = "returned"
              /\ c_pc' = "idle"
           \/ /\ c_pc' = "sleep"
              /\ UNCHANGED <<c_sessions, c_active, c_opened, c_mgr, c_result>>
    /\ UNCHANGED <<c_cur, c_host, c_end_time, c_was_active, c_persisted>>
    /\ UNCHANGED notConnVars

\* sleep(10) after a failed attempt
RetrySleep ==
    /\ c_pc = "sleep"
    /\ c_clock' = c_clock + RetryInterval
    /\ c_pc' = "connect"
    /\ UNCHANGED <<c_cur, c_mgr, c_active, c_opened, c_sessions, c_host,
                   c_end_time, c_attempts, c_was_active, c_result, c_persisted>>
    /\ UNCHANGED notConnVars

\* the loop of __connect ends: raise AssertionError
ConnectGiveUp ==
    /\ c_pc = "connect"
    /\ ~(c_end_time > c_clock)
    /\ c_result' = "AssertionError"
    /\ c_pc' = "idle"
    /\ UNCHANGED <<c_cur, c_mgr, c_active, c_opened, c_sessions, c_host, c_clock,
                   c_end_time, c_attempts, c_was_active, c_persisted>>
    /\ UNCHANGED notConnVars

\* the network or the host ends a session: its transport is no longer active
SessionDrops(s) ==
    /\ c_pc = "idle"
    /\ s \in c_active
    /\ c_active' = c_active \ {s}
    /\ UNCHANGED <<c_pc, c_cur, c_mgr, c_opened, c_sessions, c_host, c_clock,
                   c_end_time, c_attempts, c_was_active, c_result, c_persisted>>
    /\ UNCHANGED notConnVars

\* the attributes of a CephNode the model follows; "ip_address" stands for
\* the attributes that hold plain data
NodeAttributes == {"ip_address", "root_connection", "connection", "rssh",
                   "rssh_transport", "ssh", "ssh_transport"}

\* the statements of CephNode.__getstate__, in order:
\* if d.get(test): del d[deleted]
GetStateSteps ==
    << [test |-> "rssh", deleted |-> "rssh"],
       [test |-> "ssh", deleted |-> "ssh"],
       [test |-> "rssh_transport", deleted |-> "rssh_transport"],
       [test |-> "ssh_transport", deleted |-> "ssh_transport"],
       [test |-> "ssh_transport", deleted |-> "root_connection"],
       [test |-> "connection", deleted |-> "connection"] >>

RECURSIVE DeleteKeys(_, _)
\* the keys left in d after the given statements; every attribute is truthy
DeleteKeys(keys, steps) ==
    IF steps = <<>> THEN keys
    ELSE DeleteKeys(IF Head(steps).test \in keys
                    THEN keys \ {Head(steps).deleted} ELSE keys,
                    Tail(steps))

\* SSHConnectionManager.__getstate__ keeping the transport in the copy
SSHConnectionManager_getstate_KeepsTransport(mgr) ==
    [has_transport |-> TRUE, transport |-> mgr.transport,
     has_client |-> FALSE, client |-> 0]

\* SSHConnectionManager.__getstate__: the copy of __dict__ without the
\* transport when it is not None, and without the client (an object, truthy)
SSHConnectionManager_getstate(mgr) ==
    [has_transport |-> (mgr.transport = 0), transport |-> 0,
     has_client |-> FALSE, client |-> 0]

\* CephNode.__getstate__, and pickle applying __getstate__ to the managers
\* that are left in the dictionary
CephNode_getstate(mgrs) ==
    LET keys == DeleteKeys(NodeAttributes, GetStateSteps) IN
    [keys |-> keys,
     managers |-> [m \in keys \cap Managers |-> SSHConnectionManager_getstate(mgrs[m])]]

\* the node is pickled
Persist ==
    /\ c_pc = "idle"
    /\ c_persisted' = CephNode_getstate(c_mgr)
    /\ c_result' = "persisted"
    /\ UNCHANGED <<c_pc, c_cur, c_mgr, c_active, c_opened, c_sessions, c_host,
                   c_clock, c_end_time, c_attempts, c_was_active>>
    /\ UNCHANGED notConnVars

\* the node is unpickled: CephNode.__setstate__ updates __dict__ and makes
\* two new connection managers
Restore ==
    /\ c_pc = "idle"
    /\ c_persisted # <<>>
    /\ c_mgr' = [m \in Managers |-> FreshManager]
    /\ c_opened' = [m \in Managers |-> {}]
    /\ c_cur' = None
    /\ c_result' = "restored"
    /\ UNCHANGED <<c_pc, c_active, c_sessions, c_host, c_clock, c_end_time,
                   c_attempts, c_was_active, c_persisted>>
    /\ UNCHANGED notConnVars

\* a node after CephNode.__init__: two managers that have not connected
InitConn ==
    /\ c_pc = "idle"
    /\ c_cur = None
    /\ c_mgr = [m \in Managers |-> FreshManager]
    /\ c_active = {}
    /\ c_opened = [m \in Managers |-> {}]
    /\ c_sessions = 0
    /\ c_host \in [outage_timeout : OutageTimeouts, accepts : BOOLEAN]
    /\ c_clock = 0
    /\ c_end_time = 0
    /\ c_attempts = 0
    /\ c_was_active = FALSE
    /\ c_result = None
    /\ c_persisted = <<>>
    /\ NodeIdle
    /\ RunIdle
    /\ HealthIdle
    /\ ExecIdle
    /\ AllocIdle
    /\ RolesIdle
    /\ LaterIdle

NextConn ==
    \/ \E m \in Managers : GetClient(m)
    \/ ConnectAttempt
    \/ RetrySleep
    \/ ConnectGiveUp
    \/ \E s \in 1..MaxSessions : SessionDrops(s)
    \/ Persist
    \/ Restore

SpecConn == InitConn /\ [][NextConn]_vars

(***************************************************************************)
(* RolesContainer.  A str argument and a list argument are kept apart:     *)
(* the operators ending in _str model the isinstance(role, str) branch,    *)
(* those ending in _list the other one.                                    *)
(***************************************************************************)
Roles == {"pool", "osd", "mon", "mgr"}

\* the collections passed to the container: lists of up to two roles
RoleLists == {<<>>} \cup {<<r>> : r \in Roles} \cup {<<r, q>> : r, q \in Roles}

\* RolesContainer.__init__(role) with a str
RolesContainer_init_str(role) == <<role>>

\* RolesContainer.__init__(role) with a collection
RolesContainer_init_list(role) == IF Len(role) > 0 THEN role ELSE <<"pool">>

\* RolesContainer.__eq__(role) with a str: role in self.role_list
RolesContainer_eq_str(rl, role) == role \in Range(rl)

\* RolesContainer.__eq__(role) with a collection:
\* all(atomic_role in role for atomic_role in self.role_list)
RolesContainer_eq_list(rl, role) ==
    \A i \in DOMAIN rl : rl[i] \in Range(role)

\* RolesContainer.__ne__
RolesContainer_ne_str(rl, role) == ~RolesContainer_eq_str(rl, role)

RolesContainer_ne_list(rl, role) == ~RolesContainer_eq_list(rl, role)

\* Ceph.get_nodes(role=role) keeps a node whose role container is rl; a
\* role that is false (an empty list) makes get_nodes return every node
get_nodes_str(rl, role) == RolesContainer_eq_str(rl, role)

get_nodes_list(rl, role) == IF Len(role) > 0 THEN RolesContainer_eq_list(rl, role) ELSE TRUE

\* the index of the first occurrence of r in rl
FirstIndex(rl, r) == Min({i \in DOMAIN rl : rl[i] = r})

\* list(set(rl)): the distinct elements, in an order the hashes decide
ListOfSet(rl) ==
    {q \in [1..Cardinality(Range(rl)) -> Range(rl)] : Range(q) = Range(rl)}

\* RolesContainer.remove(object)
RcRemove(r) ==
    /\ IF r \in Range(role_list)
       THEN /\ role_list' = RemoveAt(role_list, FirstIndex(role_list, r))
            /\ rc_raised' = None
       ELSE rc_raised' = "ValueError" /\ UNCHANGED role_list
    /\ UNCHANGED notRolesVars

\* RolesContainer.append(object)
RcAppend(r) ==
    /\ Len(role_list) < MaxRoles
    /\ role_list' = Append(role_list, r)
    /\ rc_raised' = None
    /\ UNCHANGED notRolesVars

\* RolesContainer.extend(iterable)
RcExtend(roles) ==
    /\ role_list' \in ListOfSet(role_list \o roles)
    /\ rc_raised' = None
    /\ UNCHANGED notRolesVars

\* RolesContainer.update_role(roles_list)
RcUpdateRole(roles) ==
    /\ LET kept == IF "pool" \in Range(role_list)
                   THEN RemoveAt(role_list, FirstIndex(role_list, "pool"))
                   ELSE role_list
       IN  role_list' \in ListOfSet(kept \o roles)
    /\ rc_raised' = None
    /\ UNCHANGED notRolesVars

\* RolesContainer.clear()
RcClear ==
    /\ role_list' = <<"pool">>
    /\ rc_raised' = None
    /\ UNCHANGED notRolesVars

\* RolesContainer.__delitem__(key), key counted from 1
RcDelItem(key) ==
    /\ IF key \in DOMAIN role_list
       THEN role_list' = RemoveAt(role_list, key) /\ rc_raised' = None
       ELSE rc_raised' = "IndexError" /\ UNCHANGED role_list
    /\ UNCHANGED notRolesVars

\* RolesContainer.__setitem__(key, value), key counted from 1
RcSetItem(key, value) ==
    /\ IF key \in DOMAIN role_list
       THEN role_list' = [role_list EXCEPT ![key] = value] /\ rc_raised' = None
       ELSE rc_raised' = "IndexError" /\ UNCHANGED role_list
    /\ UNCHANGED notRolesVars

\* RolesContainer(), RolesContainer(role) with a str or with a collection
InitRoles ==
    /\ \/ role_list = RolesContainer_init_str("pool")
       \/ \E r \in Roles : role_list = RolesContainer_init_str(r)
       \/ \E roles \in RoleLists : role_list = RolesContainer_init_list(roles)
    /\ rc_raised = None
    /\ NodeIdle
    /\ RunIdle
    /\ HealthIdle
    /\ ExecIdle
    /\ AllocIdle
    /\ ConnIdle
    /\ LaterIdle

NextRoles ==
    \/ \E r \in Roles : RcRemove(r)
    \/ \E r \in Roles : RcAppend(r)
    \/ \E roles \in RoleLists : RcExtend(roles)
    \/ \E roles \in RoleLists : RcUpdateRole(roles)
    \/ RcClear
    \/ \E key \in 1..MaxRoles : RcDelItem(key)
    \/ \E key \in 1..MaxRoles, value \in Roles : RcSetItem(key, value)

SpecRoles == InitRoles /\ [][NextRoles]_vars

(***************************************************************************)
(* The proxy operations of a role-object: CephObject, CephDemon            *)
(*                                                                         *)
(* A command is the sequence of its pieces, each occurrence of the text    *)
(* "sudo" being a piece of its own, so that cmd.replace("sudo", "") is the *)
(* removal of these pieces.  A call is the operation's name, its arguments *)
(* in the order of the signature and the names of its keyword options.     *)
(***************************************************************************)
Cmds == {<<"ls">>, <<"sudo", " ceph -s">>, <<"sudo", " vi", "sudo", " -c">>}

Kwargs == {<<>>, <<"long_running">>, <<"sudo", "timeout">>}

Paths == {"/etc/ceph", "/tmp/f"}

PyBools == {"True", "False"}

VersionIds == {"7.9", "8.4", "18.04"}

\* distro_ver.startswith("8")
StartsWith8(distro_ver) ==
    CASE distro_ver = "8.4" -> TRUE
      [] distro_ver = "7.9" -> FALSE
      [] distro_ver = "18.04" -> FALSE

\* the truth value of self.containerized
Containerized(o) == o.containerized = "True"

\* a role-object with the facts of its node that its operations read
ProxyObject(kind, role, containerized, name, distro_ver) ==
    [kind |-> kind, role |-> role, shortname |-> "ceph-node1",
     containerized |-> containerized, custom_container_name |-> name,
     VERSION_ID |-> distro_ver]

ProxyObjects ==
    {ProxyObject("CephObject", role, None, None, distro_ver) :
       role \in {"client", "installer"}, distro_ver \in VersionIds}
    \cup {ProxyObject("CephDemon", role, c, name, distro_ver) :
            role \in {"mon", "mgr"}, c \in {None, "True", "False"},
            name \in {None, "mon-a"}, distro_ver \in VersionIds}

NoCall == [op |-> "none", args |-> <<>>, kw |-> <<>>]

Call(op, args, kw) == [op |-> op, args |-> args, kw |-> kw]

\* what the operations of CephNode return: the output of a command or its
\* exit code, the names in a directory or None for a missing directory, a
\* file handle, and None from the operations without a return statement
NodeResults(op) ==
    CASE op = "exec_command" -> {"out, err", "exit"}
      [] op = "get_dir_list" -> {"listdir", None}
      [] op = "remote_file" -> {"file"}
      [] OTHER -> {None}

\* CephObject.exec_command(cmd, **kw)
ExecCommand(cmd, kw, node_result) ==
    /\ p_obj.kind = "CephObject"
    /\ p_call' = Call("exec_command", <<cmd>>, kw)
    /\ p_node_call' = Call("exec_command", <<cmd>>, kw)
    /\ p_node_result' = node_result
    /\ p_result' = node_result
    /\ UNCHANGED <<p_obj, notProxyVars>>

\* CephDemon.container_name
container_name(o) ==
    IF ~Containerized(o) THEN <<>>
    ELSE IF o.custom_container_name = None
         THEN <<"ceph-", o.role, "-", o.shortname>>
         ELSE <<o.custom_container_name>>

\* CephDemon.container_prefix
container_prefix(o) ==
    IF ~Containerized(o) THEN <<>>
    ELSE IF StartsWith8(o.VERSION_ID)
         THEN <<"sudo podman exec ">> \o container_name(o)
         ELSE <<"sudo docker exec ">> \o container_name(o)

\* cmd.replace("sudo", "")
ReplaceSudo(cmd) == SelectSeq(cmd, LAMBDA piece : piece # "sudo")

\* CephDemon.exec_command(cmd, **kw)
DemonExecCommand(cmd, kw, node_result) ==
    /\ p_obj.kind = "CephDemon"
    /\ LET node_cmd == IF Containerized(p_obj)
                       THEN container_prefix(p_obj) \o <<" ">> \o ReplaceSudo(cmd)
                       ELSE cmd
       IN  p_node_call' = Call("exec_command", <<node_cmd>>, kw)
    /\ p_call' = Call("exec_command", <<cmd>>, kw)
    /\ p_node_result' = node_result
    /\ p_result' = node_result
    /\ UNCHANGED <<p_obj, notProxyVars>>

\* CephObject.create_dirs(dir_path, sudo)
CreateDirs(dir_path, sudo, node_result) ==
    /\ p_call' = Call("create_dirs", <<dir_path, sudo>>, <<>>)
    /\ p_node_call' = Call("create_dirs", <<dir_path, sudo>>, <<>>)
    /\ p_node_result' = node_result
    /\ p_result' = node_result
    /\ UNCHANGED <<p_obj, notProxyVars>>

\* CephObject.remote_file(**kw)
RemoteFile(kw, node_result) ==
    /\ p_call' = Call("remote_file", <<>>, kw)
    /\ p_node_call' = Call("remote_file", <<>>, kw)
    /\ p_node_result' = node_result
    /\ p_result' = node_result
    /\ UNCHANGED <<p_obj, notProxyVars>>

\* CephObject.get_dir_list(dir_path, sudo): the node's list is not returned
GetDirList(dir_path, sudo, node_result) ==
    /\ p_call' = Call("get_dir_list", <<dir_path, sudo>>, <<>>)
    /\ p_node_call' = Call("get_dir_list", <<dir_path, sudo>>, <<>>)
    /\ p_node_result' = node_result
    /\ p_result' = None
    /\ UNCHANGED <<p_obj, notProxyVars>>

\* CephObject.upload_file(src, dst, sudo)
UploadFile(src, dst, sudo, node_result) ==
    /\ p_call' = Call("upload_file", <<src, dst, sudo>>, <<>>)
    /\ p_node_call' = Call("upload_file", <<src, dst, sudo>>, <<>>)
    /\ p_node_result' = node_result
    /\ p_result' = None
    /\ UNCHANGED <<p_obj, notProxyVars>>

\* CephObject.download_file(src, dst, sudo)
DownloadFile(src, dst, sudo, node_result) ==
    /\ p_call' = Call("download_file", <<src, dst, sudo>>, <<>>)
    /\ p_node_call' = Call("download_file", <<src, dst, sudo>>, <<>>)
    /\ p_node_result' = node_result
    /\ p_result' = None
    /\ UNCHANGED <<p_obj, notProxyVars>>

InitProxy ==
    /\ p_obj \in ProxyObjects
    /\ p_call = NoCall /\ p_node_call = NoCall
    /\ p_node_result = None /\ p_result = None
    /\ NodeIdle
    /\ RunIdle
    /\ HealthIdle
    /\ ExecIdle
    /\ AllocIdle
    /\ ConnIdle
    /\ RolesIdle
    /\ QueryIdle
    /\ PkgIdle

NextProxy ==
    \/ \E cmd \in Cmds, kw \in Kwargs, r \in NodeResults("exec_command") :
          ExecCommand(cmd, kw, r)
    \/ \E cmd \in Cmds, kw \in Kwargs, r \in NodeResults("exec_command") :
          DemonExecCommand(cmd, kw, r)
    \/ \E dir_path \in Paths, sudo \in PyBools, r \in NodeResults("create_dirs") :
          CreateDirs(dir_path, sudo, r)
    \/ \E kw \in Kwargs, r \in NodeResults("remote_file") : RemoteFile(kw, r)
    \/ \E dir_path \in Paths, sudo \in PyBools, r \in NodeResults("get_dir_list") :
          GetDirList(dir_path, sudo, r)
    \/ \E src, dst \in Paths, sudo \in PyBools, r \in NodeResults("upload_file") :
          UploadFile(src, dst, sudo, r)
    \/ \E src, dst \in Paths, sudo \in PyBools, r \in NodeResults("download_file") :
          DownloadFile(src, dst, sudo, r)

SpecProxy == InitProxy /\ [][NextProxy]_vars

(***************************************************************************)
(* The queries of a cluster: Ceph.get_nodes, get_ceph_objects,             *)
(* get_ceph_object, get_ceph_demons, ceph_demon_stat                       *)
(*                                                                         *)
(* A node is its ceph_object_list; an object is referred to by the pair of *)
(* its node's index in node_list and its own index in the node's list.     *)
(* A query returns [raised, value]; a value of get_ceph_object is the      *)
(* one-element sequence of the object returned, or <<>> for None.          *)
(***************************************************************************)
OsdWithDevice == [CephOsd EXCEPT !.device = "vdb"]

Inactive(o) == [o EXCEPT !.is_active = FALSE]

\* the lists of role-objects of the nodes queried
QueryNodes ==
    { <<CephDemon("mon"), CephDemon("mgr")>>,
      <<OsdWithDevice, CephOsd>>,
      <<CephObject("client")>>,
      <<CephInstaller("installer"), Inactive(CephDemon("mgr"))>>,
      <<CephDemon("mon"), NoneObj>>,
      <<Inactive(CephDemon("mon")), OsdWithDevice>>,
      <<>> }

NodeLists == UNION {[1..k -> QueryNodes] : k \in 0..MaxNodes}

QueryRoles == {None, "mon", "mgr", "osd", "client", "pool"}

\* CephNode.role: the roles of the entries that are objects
CephNode_role(objs) ==
    LET present == SelectSeq(objs, LAMBDA o : o.kind # "None")
    IN  RolesContainer_init_list([i \in DOMAIN present |-> present[i].role])

\* a list comprehension with a condition: the indices from i on, in order,
\* at which keep is true
RECURSIVE Indices(_, _)
Indices(keep, i) ==
    IF i > Len(keep) THEN <<>>
    ELSE IF keep[i] THEN <<i>> \o Indices(keep, i + 1)
    ELSE Indices(keep, i + 1)

\* Ceph.get_nodes(role): the indices of the nodes kept, in node_list order
Ceph_get_nodes(node_list, role) ==
    IF role # None
    THEN Indices([n \in DOMAIN node_list |->
                    RolesContainer_eq_str(CephNode_role(node_list[n]), role)], 1)
    ELSE Indices([n \in DOMAIN node_list |-> TRUE], 1)

\* CephNode.get_ceph_objects(role): "ceph_demon.role == role or not role"
CephNode_get_ceph_objects(objs, role) ==
    Indices([i \in DOMAIN objs |-> objs[i].role = role \/ role = None], 1)

\* CephNode.get_ceph_demons(role) without the test of is_active
CephNode_get_ceph_demons_AnyDemon(objs, role) ==
    LET kept == CephNode_get_ceph_objects(objs, role)
    IN  SelectSeq(kept, LAMBDA i : IsDemon(objs[i]))

\* CephNode.get_ceph_demons(role)
CephNode_get_ceph_demons(objs, role) ==
    LET kept == CephNode_get_ceph_objects(objs, role)
    IN  SelectSeq(kept, LAMBDA i : IsDemon(objs[i]) /\ is_active(objs[i]))

\* the references <<n, i>> for the indices a node's query returned
Refs(n, indices) == [k \in DOMAIN indices |-> <<n, indices[k]>>]

\* for node in node_list: ceph_object_list.extend(node.get_ceph_objects(role))
\* reading the role of an entry that is no object raises AttributeError
\* per_node[n] is what the query of node n returns
RECURSIVE Extend(_, _, _, _)
Extend(node_list, nodes, per_node, acc) ==
    IF nodes = <<>> THEN [raised |-> None, value |-> acc]
    ELSE IF HasNone(node_list[Head(nodes)])
    THEN [raised |-> "AttributeError", value |-> <<>>]
    ELSE Extend(node_list, Tail(nodes), per_node,
                acc \o Refs(Head(nodes), per_node[Head(nodes)]))

\* Ceph.get_ceph_objects(role)
Ceph_get_ceph_objects(node_list, role) ==
    Extend(node_list, Ceph_get_nodes(node_list, role),
           [n \in DOMAIN node_list |->
              CephNode_get_ceph_objects(node_list[n], role)], <<>>)

\* Ceph.get_ceph_object(role, order_id): IndexError alone is caught
Ceph_get_ceph_object(node_list, role, order_id) ==
    LET r == Ceph_get_ceph_objects(node_list, role) IN
    IF r.raised # None THEN r
    ELSE IF order_id + 1 <= Len(r.value)
    THEN [raised |-> None, value |-> <<r.value[order_id + 1]>>]
    ELSE [raised |-> None, value |-> <<>>]

\* Ceph.get_ceph_demons(role)
Ceph_get_ceph_demons(node_list, role) ==
    Extend(node_list, Ceph_get_nodes(node_list, role),
           [n \in DOMAIN node_list |->
              CephNode_get_ceph_demons(node_list[n], role)], <<>>)

\* Ceph.ceph_demon_stat: the number counted for each role; a role without a
\* key in the dictionary has 0
ceph_demon_stat(cluster) ==
    LET r == Ceph_get_ceph_demons(cluster.node_list, None)
        Role(ref) == cluster.node_list[ref[1]][ref[2]].role
        Counted(ref) == ~(Role(ref) = "mgr" /\ rhcs_version_lt_3(cluster.rhcs_version))
    IN  IF r.raised # None THEN r
        ELSE [raised |-> None,
              value |-> [role \in DEMON_ROLES |->
                           Len(SelectSeq(r.value,
                                LAMBDA ref : Role(ref) = role /\ Counted(ref)))]]

QueryCall(op, node, role, order_id) ==
    [op |-> op, node |-> node, role |-> role, order_id |-> order_id]

\* cluster.get_nodes(role)
GetNodes(role) ==
    /\ q_call' = QueryCall("get_nodes", 0, role, 0)
    /\ q_result' = [raised |-> None,
                    value |-> Ceph_get_nodes(q_cluster.node_list, role)]
    /\ UNCHANGED <<q_cluster, notQueryVars>>

\* cluster.get_ceph_objects(role)
GetCephObjects(role) ==
    /\ q_call' = QueryCall("get_ceph_objects", 0, role, 0)
    /\ q_result' = Ceph_get_ceph_objects(q_cluster.node_list, role)
    /\ UNCHANGED <<q_cluster, notQueryVars>>

\* cluster.get_ceph_object(role, order_id)
GetCephObject(role, order_id) ==
    /\ q_call' = QueryCall("get_ceph_object", 0, role, order_id)
    /\ q_result' = Ceph_get_ceph_object(q_cluster.node_list, role, order_id)
    /\ UNCHANGED <<q_cluster, notQueryVars>>

\* cluster.get_ceph_demons(role)
GetCephDemons(role) ==
    /\ q_call' = QueryCall("get_ceph_demons", 0, role, 0)
    /\ q_result' = Ceph_get_ceph_demons(q_cluster.node_list, role)
    /\ UNCHANGED <<q_cluster, notQueryVars>>

\* node.get_ceph_demons(role) on node n of the cluster
NodeGetCephDemons(n, role) ==
    /\ n \in DOMAIN q_cluster.node_list
    /\ q_call' = QueryCall("node.get_ceph_demons", n, role, 0)
    /\ q_result' =
         IF HasNone(q_cluster.node_list[n])
         THEN [raised |-> "AttributeError", value |-> <<>>]
         ELSE [raised |-> None,
               value |-> Refs(n, CephNode_get_ceph_demons(q_cluster.node_list[n],
                                                          role))]
    /\ UNCHANGED <<q_cluster, notQueryVars>>

\* cluster.ceph_demon_stat
CephDemonStat ==
    /\ q_call' = QueryCall("ceph_demon_stat", 0, None, 0)
    /\ q_result' = ceph_demon_stat(q_cluster)
    /\ UNCHANGED <<q_cluster, notQueryVars>>

InitQuery ==
    /\ q_cluster \in [node_list : NodeLists, rhcs_version : {None} \cup RhcsVersions]
    /\ q_call = QueryCall("none", 0, None, 0)
    /\ q_result = [raised |-> None, value |-> <<>>]
    /\ NodeIdle
    /\ RunIdle
    /\ HealthIdle
    /\ ExecIdle
    /\ AllocIdle
    /\ ConnIdle
    /\ RolesIdle
    /\ ProxyIdle
    /\ PkgIdle

NextQuery ==
    \/ \E role \in QueryRoles : GetNodes(role)
    \/ \E role \in QueryRoles : GetCephObjects(role)
    \/ \E role \in QueryRoles \ {None}, order_id \in 0..MaxOrder :
          GetCephObject(role, order_id)
    \/ \E role \in QueryRoles : GetCephDemons(role)
    \/ \E n \in 1..MaxNodes, role \in QueryRoles : NodeGetCephDemons(n, role)
    \/ CephDemonStat

SpecQuery == InitQuery /\ [][NextQuery]_vars

(***************************************************************************)
(* Ceph.setup_packages: the calling thread visits the nodes in order,      *)
(* issues its commands to a node one after the other, each exec_command    *)
(* returning when the command has ended, spawns the package update of an   *)
(* rpm node into the pool and sleeps; the pool scope is left at the end.   *)
(***************************************************************************)
PkgTypes == {"rpm", "deb"}

RepositoryTypes == {None, "iso", "cdn"}

FleetNodes == [pkg_type : PkgTypes, installer : BOOLEAN]

Fleets == UNION {[1..n -> FleetNodes] : n \in 1..MaxFleet}

\* the commands the loop body issues to a node before the package update
PackageCommands(cluster, node) ==
    LET repo == cluster.ceph_repository_type IN
    (IF cluster.use_cdn
     THEN IF node.pkg_type = "deb"
          THEN IF node.installer THEN <<"setup_deb_cdn_repos">> ELSE <<>>
          ELSE <<"setup_rhceph_cdn_repos">>
     ELSE (IF repo # "iso" \/ (repo = "iso" /\ node.installer)
           THEN IF node.pkg_type = "deb"
                THEN <<"setup_deb_repos", "sleep",
                       "sudo apt-get install -y python",
                       "apt-get install -y python-pip",
                       "apt-get install -y ntp",
                       "apt-get install -y chrony",
                       "pip install nose">>
                ELSE IF cluster.hotfix_repo
                THEN <<"wget -O /etc/yum.repos.d/rh_repo.repo">>
                ELSE IF repo # "cdn" THEN <<"setup_rhceph_repos">> ELSE <<>>
           ELSE <<>>)
          \o (IF repo = "iso" /\ node.installer
              THEN <<"mkdir -p iso", "wget -O iso/ceph.iso">>
              ELSE <<>>))
    \o (IF node.pkg_type = "rpm" THEN <<"yum update metadata">> ELSE <<>>)

\* check_ec of a command of the loop body: off for the metadata update only
PackageCheckEc(cmd) == cmd # "yum update metadata"

\* a command is issued to the node the loop is at
NodeExecCommand ==
    /\ k_pc = "node" /\ k_todo # <<>>
    /\ IF Head(k_todo) = "sleep"
       THEN k_todo' = Tail(k_todo) /\ UNCHANGED <<k_pc, k_running>>
       ELSE /\ k_running' = [k_running EXCEPT ![k_i] = @ + 1]
            /\ k_pc' = "exec"
            /\ UNCHANGED k_todo
    /\ UNCHANGED <<k_cluster, k_i, k_spawned, notPkgVars>>

\* the command has ended and exec_command returns, or raises CommandFailed
NodeCommandEnds(exit) ==
    /\ k_pc = "exec"
    /\ k_running' = [k_running EXCEPT ![k_i] = @ - 1]
    /\ IF exit # 0 /\ PackageCheckEc(Head(k_todo))
       THEN k_pc' = "raised" /\ UNCHANGED k_todo
       ELSE k_pc' = "node" /\ k_todo' = Tail(k_todo)
    /\ UNCHANGED <<k_cluster, k_i, k_spawned, notPkgVars>>

\* the command outlives its timeout: exec_command raises, the command runs on
NodeCommandTimesOut ==
    /\ k_pc = "exec"
    /\ k_pc' = "raised"
    /\ UNCHANGED <<k_cluster, k_i, k_todo, k_running, k_spawned, notPkgVars>>

\* the package update spawned before the metadata update has been issued
Spawn_BeforeMetadata ==
    /\ k_pc = "node"
    /\ k_todo # <<>> /\ Head(k_todo) = "yum update metadata"
    /\ k_running' = [k_running EXCEPT ![k_i] = @ + 1]
    /\ k_spawned' = k_spawned \cup {k_i}
    /\ UNCHANGED <<k_cluster, k_i, k_pc, k_todo, notPkgVars>>

\* p.spawn(node.exec_command, cmd="yum update -y", long_running=True) of an
\* rpm node, once the commands before it have ended
Spawn ==
    /\ k_pc = "node" /\ k_todo = <<>>
    /\ IF k_cluster.node_list[k_i].pkg_type = "rpm"
       THEN /\ k_running' = [k_running EXCEPT ![k_i] = @ + 1]
            /\ k_spawned' = k_spawned \cup {k_i}
       ELSE UNCHANGED <<k_running, k_spawned>>
    /\ k_pc' = "sleep"
    /\ UNCHANGED <<k_cluster, k_i, k_todo, notPkgVars>>

\* sleep(10), then the next node of the list or the end of the pool scope
Sleep ==
    /\ k_pc = "sleep"
    /\ IF k_i < Len(k_cluster.node_list)
       THEN /\ k_i' = k_i + 1
            /\ k_pc' = "node"
            /\ k_todo' = PackageCommands(k_cluster, k_cluster.node_list[k_i + 1])
       ELSE k_pc' = "join" /\ UNCHANGED <<k_i, k_todo>>
    /\ UNCHANGED <<k_cluster, k_running, k_spawned, notPkgVars>>

\* a spawned package update ends on its node, in a worker of the pool
WorkerEnds(n) ==
    /\ n \in k_spawned
    /\ k_spawned' = k_spawned \ {n}
    /\ k_running' = [k_running EXCEPT ![n] = @ - 1]
    /\ UNCHANGED <<k_cluster, k_i, k_pc, k_todo, notPkgVars>>

\* the end of the pool scope: every spawned call has returned or raised
PoolExit ==
    /\ k_pc = "join"
    /\ k_spawned = {}
    /\ k_pc' = "returned"
    /\ UNCHANGED <<k_cluster, k_i, k_todo, k_running, k_spawned, notPkgVars>>

InitPackages ==
    /\ k_cluster \in [node_list : Fleets, use_cdn : BOOLEAN,
                      ceph_repository_type : RepositoryTypes,
                      hotfix_repo : BOOLEAN]
    /\ k_i = 1
    /\ k_pc = "node"
    /\ k_todo = PackageCommands(k_cluster, k_cluster.node_list[1])
    /\ k_running = [n \in DOMAIN k_cluster.node_list |-> 0]
    /\ k_spawned = {}
    /\ NodeIdle
    /\ RunIdle
    /\ HealthIdle
    /\ ExecIdle
    /\ AllocIdle
    /\ ConnIdle
    /\ RolesIdle
    /\ ProxyIdle
    /\ QueryIdle

NextPackages ==
    \/ NodeExecCommand
    \/ \E exit \in 0..1 : NodeCommandEnds(exit)
    \/ NodeCommandTimesOut
    \/ Spawn
    \/ Sleep
    \/ \E n \in 1..MaxFleet : WorkerEnds(n)
    \/ PoolExit

SpecPackages == InitPackages /\ [][NextPackages]_vars

(***************************************************************************)
(* Claims                                                                  *)
(***************************************************************************)

\* ---- exec_command (SpecExec) ----

\* long_running returned, so that exec_command came to look at the exit code
ExitCodeSeen ==
    x_pc = "done" /\ (x_result.kind = "returned" \/ x_result.cause = "exit code")

\* C1, as claimed: whenever exec_command is called with check_ec enabled and
\* the remote exit code is not 0, it raises CommandFailed and returns no
\* result, whatever verbose, long_running and pretty_print are.
C1_CheckEcRaisesOnNonZeroExit ==
    (ExitCodeSeen /\ x_kw.check_ec = "True" /\ x_remote.exit_code # 0)
        => x_result.kind = "CommandFailed"

\* the command was issued with a timeout T and the remote process has not
\* completed within T of being issued
NotCompletedWithinTimeout ==
    /\ x_start # -1
    /\ Timeout(x_kw) # 0
    /\ x_remote.exit_at = Never \/ x_remote.exit_at > Timeout(x_kw)

\* C2, as claimed: a command with a configured timeout T whose remote
\* process has not completed within T of being issued ends with the
\* TimeoutException turned into CommandFailed, never with a result, and no
\* later than T plus one poll interval of 1 second after it was issued.
C2_TimeoutEndsTheCommand ==
    (x_pc = "done" /\ NotCompletedWithinTimeout)
        => /\ x_result.kind = "CommandFailed"
           /\ x_result.cause = "TimeoutException"
           /\ x_clock <= x_start + Timeout(x_kw) + 1

\* ---- check_health (SpecHealth) ----

HealthReturned == h_pc = "done" /\ h_result \in {"0", "1"}

\* C3, as claimed: when the status text passed the valid-state check and the
\* status report counts fewer up daemons or fewer in daemons than OSD
\* daemons, check_health returns 1.
C3_OsdMismatchIsUnhealthy ==
    (HealthReturned /\ h_osd.rc # None
        /\ (h_osd.num_up_osds # h_osd.num_osds \/ h_osd.num_in_osds # h_osd.num_osds))
        => h_result = "1"

\* C4, as claimed: for every cluster version, when the status text last
\* obtained by the poll loop contains HEALTH_ERR, check_health returns 1.
C4_HealthErrIsUnhealthy ==
    (HealthReturned /\ "HEALTH_ERR" \in h_status) => h_result = "1"

\* C5, as claimed: check_health returns 0 only if the status text held when
\* the poll loop ends contains active+clean and none of peering, activating,
\* creating.
C5_HealthyOnlyWithoutPendingStates ==
    (h_pc = "done" /\ h_result = "0")
        => (valid_states \subseteq h_status /\ h_status \cap pending_states = {})

\* ---- the upgrade workflow (SpecRun) ----

Calls(log) == [i \in DOMAIN log |-> log[i].call]

\* the execution entered the try statement
EnteredTry == \E i \in DOMAIN run_log : run_log[i].call \in {"executor.run", "set_tool_repo"}

\* the calls of get_cluster_state, whatever their outcome
Collections == SelectSeq(run_log, LAMBDA e : e.call = "get_cluster_state")

\* C6, as claimed: every execution of run() that entered its phases ends with
\* exactly one collection of the fixed diagnostics list, made after all other
\* steps, also when a phase, the benchmark start or the benchmark teardown
\* failed.
C6_DiagnosticsAlwaysCollected ==
    (run_pc = "done" /\ EnteredTry)
        => /\ Len(Collections) = 1
           /\ run_log[Len(run_log)].call = "get_cluster_state"
           /\ run_log[Len(run_log)].cmds = DiagnosticCommands

\* C7, as claimed: run() never propagates an exception to its caller;
\* whichever step raises, it returns 1.
C7_RunNeverPropagates == run_pc = "done" => result \in {"0", "1"}

PhaseCalls == {"set_tool_repo", "install", "upgrade_check", "start_upgrade",
               "monitor_upgrade_status"}

\* the phases run() called, in order, with their outcomes
PhasesRun ==
    LET p == SelectSeq(run_log, LAMBDA e : e.call \in PhaseCalls)
    IN  [i \in DOMAIN p |-> <<p[i].call, p[i].outcome>>]

\* C8: run() returns 0 only if set_tool_repo, install, upgrade_check,
\* start_upgrade and monitor_upgrade_status each completed without error, in
\* that order, and, when verify_cluster_health is configured, check_health
\* returned 0 after them.
C8_ZeroOnlyAfterAllPhases ==
    result = "0"
        => /\ PhasesRun = <<<<"set_tool_repo", "ok">>, <<"install", "ok">>,
                            <<"upgrade_check", "ok">>, <<"start_upgrade", "ok">>,
                            <<"monitor_upgrade_status", "ok">>>>
           /\ run_config.verify_cluster_health
                => \E i, j \in DOMAIN run_log :
                      /\ i < j
                      /\ run_log[i].call = "monitor_upgrade_status"
                      /\ run_log[j].call = "check_health"
                      /\ run_log[j].outcome = "0"

\* run() returned 0 with the health check configured
C8_Witness == result = "0" /\ run_config.verify_cluster_health

\* ---- volumes and OSD role-objects (SpecNode) ----

OsdObjects(n) == SelectSeq(ceph_object_list[n], LAMBDA o : o.kind = "CephOsd")

ActiveOsds(n) == SelectSeq(OsdObjects(n), LAMBDA o : is_active(o))

AllocatedVolumes(n) == get_allocated_volumes(volume_list[n])

\* C9, as claimed: on every node, at every time, the number of allocated
\* volumes equals the number of active OSD role-objects.
C9_AllocatedEqualsActiveOsds ==
    \A n \in Nodes : Len(AllocatedVolumes(n)) = Len(ActiveOsds(n))

\* C9, amended: on every node, at every time, the number of allocated volumes
\* equals the number of OSD role-objects, active or not, plus the number of
\* volumes get_osd_devices has reserved for dedicated journal devices.
C9_AllocatedEqualsOsdsPlusReserved ==
    \A n \in Nodes :
        Len(AllocatedVolumes(n)) = Len(OsdObjects(n)) + reserved_volumes[n]

\* a node with an active OSD and a reserved volume: more volumes are
\* allocated than OSDs are active
C9_Witness ==
    \E n \in Nodes :
        /\ Len(ActiveOsds(n)) >= 1
        /\ reserved_volumes[n] >= 1
        /\ Len(AllocatedVolumes(n)) > Len(ActiveOsds(n))

\* C10: on every node, in every reachable state, the number of active OSD
\* role-objects never exceeds the number of allocated volumes.
C10_ActiveOsdsWithinAllocated ==
    \A n \in Nodes : Len(ActiveOsds(n)) <= Len(AllocatedVolumes(n))

\* every allocated volume of a node backs an active OSD, after devices were
\* assigned and an object was removed
C10_Witness ==
    \E n \in Nodes :
        /\ Len(ActiveOsds(n)) >= 1
        /\ Len(ActiveOsds(n)) = Len(AllocatedVolumes(n))
        /\ Len(get_free_volumes(volume_list[n])) >= 1

\* C11, as claimed: on every node, at any time, the number of allocated
\* volumes equals the number of OSD role-objects (active or not).
C11_AllocatedEqualsOsds ==
    \A n \in Nodes : Len(AllocatedVolumes(n)) = Len(OsdObjects(n))

\* C11, amended: every OSD role-object has taken one volume, so the allocated
\* volumes are at least the OSD role-objects, and they are exactly as many as
\* long as get_osd_devices has reserved no volume for a journal device.
C11_OsdsOwnAllocatedVolumes ==
    \A n \in Nodes :
        /\ Len(AllocatedVolumes(n)) >= Len(OsdObjects(n))
        /\ reserved_volumes[n] = 0
             => Len(AllocatedVolumes(n)) = Len(OsdObjects(n))

\* a configured node with OSD role-objects and no reserved journal volume
C11_Witness ==
    \E n \in Nodes :
        /\ ansible_config.set
        /\ reserved_volumes[n] = 0
        /\ Len(OsdObjects(n)) >= 1
        /\ Len(AllocatedVolumes(n)) = Len(OsdObjects(n))

\* C13: creating an OSD role-object on a node without a free volume raises
\* RuntimeError once and leaves the role-object list and the volumes as they
\* were; constructing a node with the osd role and no volumes raises it too.
C13_NoFreeVolumeIsFatal ==
    /\ [](\A roles \in InitRoleLists, type \in NodeTypes :
            "osd" \in Range(roles)
              => CephNode_init(roles, 0, type).raised = "RuntimeError")
    /\ [][\A n \in Nodes :
            (Len(get_free_volumes(volume_list[n])) = 0 /\ CreateCephObject(n, "osd"))
              => /\ raised' = "RuntimeError"
                 /\ UNCHANGED <<volume_list, ceph_object_list>>]_vars

\* an OSD creation has failed on a configured node whose volumes are all taken
C13_Witness ==
    \E n \in Nodes :
        /\ raised = "RuntimeError"
        /\ ansible_config.set
        /\ Len(volume_list[n]) >= 1
        /\ Len(get_free_volumes(volume_list[n])) = 0

\* ---- concurrent creation of OSD role-objects (SpecAlloc) ----

\* C12, as claimed: when creations of OSD role-objects on one node interleave,
\* no two of them take the same free volume: once all calls have completed,
\* the allocated volumes are as many as the OSD role-objects created.
C12_AllocationIsAtomic ==
    (\A t \in Threads : a_pc[t] = "idle")
      => Len(get_allocated_volumes(a_vols)) = Len(a_objs)

\* ---- connection managers (SpecConn) ----

\* C14, as claimed: against a host that never accepts a session, __connect
\* fails only once outage_timeout has elapsed since the call, and no later
\* than outage_timeout plus one retry interval; with outage_timeout = 1 it
\* fails after about one second, that is well before a retry interval is over.
C14_ConnectFailsAtOutageTimeout ==
    c_result = "AssertionError"
      => /\ c_clock >= c_host.outage_timeout
         /\ c_clock <= c_host.outage_timeout + RetryInterval
         /\ c_host.outage_timeout = 1 => c_clock < RetryInterval

\* C15: get_client connects exactly when the stored transport is missing or
\* inactive; with an active stored transport it returns without an attempt;
\* a manager has at most one live session; after a successful get_client the
\* stored transport is the transport of the client.
C15_ConnectOnlyWithoutActiveTransport ==
    /\ (c_cur # None /\ c_was_active) => (c_attempts = 0 /\ c_pc = "idle")
    /\ (c_pc = "idle" /\ c_result = "returned" /\ ~c_was_active) => c_attempts >= 1
    /\ (c_pc = "idle" /\ c_result = "returned")
         => /\ c_mgr[c_cur].transport # 0
            /\ c_mgr[c_cur].transport = c_mgr[c_cur].client
    /\ \A m \in DOMAIN c_opened : Cardinality(c_opened[m] \cap c_active) <= 1

\* get_client has returned the session of a manager that had to connect a
\* second time, its first session having dropped
C15_Witness ==
    /\ c_pc = "idle" /\ c_result = "returned" /\ c_cur # None
    /\ Cardinality(c_opened[c_cur]) = 2
    /\ TransportIsActive(c_cur)

\* C16: the pickled state of a node holds, for the managers left in it, neither
\* a client nor a transport other than None; after unpickling both managers
\* are new and unconnected, and the first get_client of either connects.
C16_PersistedStateHasNoLiveHandle ==
    /\ [](c_persisted # <<>>
            => \A m \in DOMAIN c_persisted.managers :
                 /\ ~c_persisted.managers[m].has_client
                 /\ c_persisted.managers[m].has_transport
                      => c_persisted.managers[m].transport = 0)
    /\ [](c_result = "restored"
            => \A m \in Managers : c_mgr[m] = FreshManager /\ ~TransportIsActive(m))
    /\ [][\A m \in Managers :
            (c_result = "restored" /\ GetClient(m)) => c_pc' = "connect"]_vars

\* a node was pickled while its root connection had a session, the pickle
\* holds that manager, and the node was restored while the session is alive
C16_Witness ==
    /\ c_result = "restored"
    /\ c_active # {}
    /\ "root_connection" \in DOMAIN c_persisted.managers
    /\ ~c_persisted.managers["root_connection"].has_transport

\* ---- RolesContainer (SpecRoles) ----

\* C17, as claimed: == with a single role is true iff the role is among the
\* node's roles; == with a collection is true iff every role of the collection
\* is among the node's roles; != is the negation of ==; get_nodes(role)
\* selects a node exactly when its roles are == role.
C17_EqualityIsSupersetTest ==
    /\ \A r \in Roles :
         /\ RolesContainer_eq_str(role_list, r) <=> r \in Range(role_list)
         /\ RolesContainer_ne_str(role_list, r) <=> ~RolesContainer_eq_str(role_list, r)
         /\ get_nodes_str(role_list, r) <=> RolesContainer_eq_str(role_list, r)
    /\ \A roles \in RoleLists \ {<<>>} :
         /\ RolesContainer_eq_list(role_list, roles)
              <=> Range(roles) \subseteq Range(role_list)
         /\ RolesContainer_ne_list(role_list, roles)
              <=> ~RolesContainer_eq_list(role_list, roles)
         /\ get_nodes_list(role_list, roles)
              <=> RolesContainer_eq_list(role_list, roles)

\* C18, as claimed: the container is never empty, and whenever it holds no
\* role other than the sentinel its membership is exactly 'pool'.
C18_NeverEmpty ==
    /\ role_list # <<>>
    /\ Range(role_list) \subseteq {"pool"} => Range(role_list) = {"pool"}

\* ---- error kinds of long_running and exec_command (SpecExec) ----

\* long_running ended by raising
LongRunningRaised ==
    /\ x_pc = "done"
    /\ x_result.kind # "returned"
    /\ x_result.cause \notin {"exit code", "set_keepalive"}

C20_ConnectionErrorReachesCaller ==
    (x_pc = "done" /\ ~x_remote.reachable)
      => /\ x_start = -1
         /\ x_result.kind = "AssertionError"

\* C21, as claimed: exec_command returns (stdout, stderr) when neither
\* verbose nor long_running is requested, (stdout, stderr, exit code,
\* duration) when verbose is requested, and the exit code when long_running
\* is requested.
C21_ReturnShapeFollowsFlags ==
    (x_pc = "done" /\ x_result.kind = "returned")
      => x_result.shape =
           IF x_kw.verbose = "True" THEN "out, err, exit, time"
           ELSE IF x_kw.long_running THEN "exit"
           ELSE "out, err"

\* C22: after any sequence of setup_osd_devices, direct writes to is_active
\* and changes of the cluster version, an OSD role-object is active exactly
\* when a device is assigned to it
C22_OsdActiveIffDevice ==
    \A n \in Nodes : \A i \in DOMAIN ceph_object_list[n] :
        ceph_object_list[n][i].kind = "CephOsd"
          => (is_active(ceph_object_list[n][i])
                <=> ceph_object_list[n][i].device # None)

\* an OSD with a device beside an mgr that the version 2.5 switched off
C22_Witness ==
    /\ rhcs_version = "2.5" /\ raised = None
    /\ \E n \in Nodes : \E i, j \in DOMAIN ceph_object_list[n] :
          /\ ceph_object_list[n][i].kind = "CephOsd"
          /\ ceph_object_list[n][i].device # None
          /\ ceph_object_list[n][j].role = "mgr"
          /\ ~ceph_object_list[n][j].is_active

\* C23, as claimed: every proxy operation of a generic role-object hands its
\* arguments to the node unchanged and returns what the node returned
C23_ProxyIsTransparent ==
    (p_obj.kind = "CephObject" /\ p_call.op # "none")
      => p_node_call = p_call /\ p_result = p_node_result

\* the variant that the factory is claimed to make for a role
ClaimedVariant(role) ==
    CASE role = "installer" -> "CephInstaller"
      [] role = "client" -> "CephClient"
      [] role = "osd" -> "CephOsd"
      [] role = "pool" -> "None"
      [] role \in DEMON_ROLES \ {"osd"} -> "CephDemon"
      [] OTHER -> "CephObject"

\* C24, as claimed: create_ceph_object, when it does not raise, yields the
\* variant of its role: installer, client, osd (one free volume fewer), demon,
\* generic, and no object for pool
C24_FactoryMapsRoles ==
    [][\A n \in Nodes, role \in RoleNames :
         (CreateCephObject(n, role) /\ raised' = None)
           => /\ ceph_object_list'[n][Len(ceph_object_list'[n])].kind
                   = ClaimedVariant(role)
              /\ role = "osd" => Len(get_free_volumes(volume_list'[n]))
                                  = Len(get_free_volumes(volume_list[n])) - 1]_vars

\* C25, as claimed: start_upgrade is called with the image "latest" when the
\* configuration supplies none, and with the configured image when it does
C25_ConfiguredImageIsUsed ==
    [][StartUpgrade
         => run_config'.args_image =
              IF run_config.args_image = None THEN "latest"
              ELSE run_config.args_image]_vars

\* the major version of a build as a number
MajorNumber(rhbuild) ==
    CASE rhbuild = "4.3" -> 4 [] rhbuild = "5.1" -> 5 [] rhbuild = "10.0" -> 10

\* C26, as claimed: for a build of major version below 5 check_health returns
\* 1 whenever the quorum list differs in size from the expected number of
\* monitors; for a later build no quorum query is made
C26_QuorumCheckedBelowFive ==
    h_args.rhbuild # None
      => /\ (MajorNumber(h_args.rhbuild) < 5 /\ h_pc = "done"
               /\ h_out.kind = "quorum_status"
               /\ h_out.quorum # h_args.expected_mons)
              => h_result = "1"
         /\ MajorNumber(h_args.rhbuild) >= 5 => h_out.kind # "quorum_status"

\* the reports check_health obtained are those of a healthy cluster: the
\* status is active+clean alone, the OSD counts agree, and the quorum, where
\* it was asked for, is not empty and as large as the number of monitors
HealthyReports ==
    /\ h_pc = "done"
    /\ h_status = {"active+clean"}
    /\ h_osd.rc # None
    /\ h_osd.num_osds = h_osd.num_up_osds /\ h_osd.num_osds = h_osd.num_in_osds
    /\ \/ pacific(h_args.rhbuild)
       \/ /\ h_out.kind = "quorum_status"
          /\ h_out.quorum >= 1
          /\ h_out.quorum = h_args.expected_mons

C27_WitnessPacific ==
    HealthyReports /\ h_result = "0" /\ h_args.rhbuild = "5.1"

\* ---- the queries of a cluster (SpecQuery) ----

QueryReturned(op) == q_call.op = op /\ q_result.raised = None

\* the objects of the nodes in ns that are demons of the role (any role when
\* none is given) and active: an OSD by its device, another demon by its flag
ActiveDemonRefs(ns, role) ==
    {ref \in ns \X (1..MaxObjects) :
       /\ ref[1] \in DOMAIN q_cluster.node_list
       /\ ref[2] \in DOMAIN q_cluster.node_list[ref[1]]
       /\ LET o == q_cluster.node_list[ref[1]][ref[2]] IN
          /\ o.kind \in {"CephDemon", "CephOsd"}
          /\ role = None \/ o.role = role
          /\ IF o.kind = "CephOsd" THEN o.device # None ELSE o.is_active}

\* a sequence that lists the set S, each element once
Lists(seq, S) == Range(seq) = S /\ Len(seq) = Cardinality(S)

\* C28: whenever get_ceph_demons returns, on a node or on the cluster, it
\* returns exactly the demons that are active (no generic object, client,
\* installer, OSD without device or switched-off demon), and ceph_demon_stat
\* counts per role only demons that get_ceph_demons returns
C28_OnlyActiveDemons ==
    /\ QueryReturned("get_ceph_demons")
         => Lists(q_result.value, ActiveDemonRefs(1..MaxNodes, q_call.role))
    /\ QueryReturned("node.get_ceph_demons")
         => Lists(q_result.value, ActiveDemonRefs({q_call.node}, q_call.role))
    /\ QueryReturned("ceph_demon_stat")
         => \A role \in DEMON_ROLES :
              q_result.value[role] =
                IF role = "mgr" /\ rhcs_version_lt_3(q_cluster.rhcs_version)
                THEN 0
                ELSE Cardinality(ActiveDemonRefs(1..MaxNodes, role))

\* the active monitor is returned from a cluster that also holds a client,
\* an installer and a switched-off mgr
C28_Witness ==
    /\ QueryReturned("get_ceph_demons") /\ q_call.role = None
    /\ q_cluster.node_list =
         <<<<CephInstaller("installer"), Inactive(CephDemon("mgr"))>>,
           <<Inactive(CephDemon("mon")), OsdWithDevice>>>>
    /\ q_result.value = << <<2, 2>> >>

\* the nodes having the role: an object of that role is on the node, and a
\* node without objects has the role pool
NodesHaving(role) ==
    {n \in DOMAIN q_cluster.node_list :
       LET present == SelectSeq(q_cluster.node_list[n], LAMBDA o : o.kind # "None")
       IN  IF present = <<>> THEN role = "pool"
           ELSE \E i \in DOMAIN present : present[i].role = role}

\* the objects of the role in the cluster
RefsOfRole(role) ==
    {ref \in (1..MaxNodes) \X (1..MaxObjects) :
       /\ ref[1] \in DOMAIN q_cluster.node_list
       /\ ref[2] \in DOMAIN q_cluster.node_list[ref[1]]
       /\ q_cluster.node_list[ref[1]][ref[2]].role = role}

\* cluster order: by node, then by the place in the node's list
Before(a, b) == a[1] < b[1] \/ (a[1] = b[1] /\ a[2] < b[2])

\* C29, as claimed: get_nodes(role) lists the nodes having the role in
\* cluster order, get_ceph_objects(role) their objects of that role in the
\* same order, and get_ceph_object(role, k) returns the k-th of these, or
\* None without raising when there are fewer than k + 1
C29_QueriesRespectClusterOrder ==
    /\ (q_call.op = "get_nodes" /\ q_call.role # None)
         => /\ Lists(q_result.value, NodesHaving(q_call.role))
            /\ \A i, j \in DOMAIN q_result.value :
                 i < j => q_result.value[i] < q_result.value[j]
    /\ QueryReturned("get_ceph_objects") /\ q_call.role # None
         => /\ Lists(q_result.value, RefsOfRole(q_call.role))
            /\ \A i, j \in DOMAIN q_result.value :
                 i < j => Before(q_result.value[i], q_result.value[j])
    /\ q_call.op = "get_ceph_object"
         => /\ q_result.raised = None
            /\ IF q_call.order_id < Cardinality(RefsOfRole(q_call.role))
               THEN /\ Len(q_result.value) = 1
                    /\ q_result.value[1] \in RefsOfRole(q_call.role)
                    /\ Cardinality({ref \in RefsOfRole(q_call.role) :
                                      Before(ref, q_result.value[1])})
                         = q_call.order_id
               ELSE q_result.value = <<>>

\* ---- the order of the phases (SpecRun) ----

PhaseOrder == <<"set_tool_repo", "install", "upgrade_check", "start_upgrade",
                "monitor_upgrade_status", "check_health">>

\* the entries of run_log that are calls of a phase
PhaseEntries == SelectSeq(run_log, LAMBDA e : e.call \in Range(PhaseOrder))

PhaseCompleted(e) == e.outcome \in {"ok", "0"}

\* C30, as claimed: the phases are called in the fixed order, each at most
\* once and only after the earlier ones completed without error; when a
\* phase raises, no later phase is started and run() returns 1
C30_PhasesInFixedOrder ==
    /\ \A i \in DOMAIN PhaseEntries :
          /\ PhaseEntries[i].call = PhaseOrder[i]
          /\ i < Len(PhaseEntries) => PhaseCompleted(PhaseEntries[i])
    /\ (run_pc = "done" /\ \E i \in DOMAIN PhaseEntries :
                              ~PhaseCompleted(PhaseEntries[i]))
         => result = "1"

\* the entries of run_log that are calls of the given name
EntriesOf(call) == SelectSeq(run_log, LAMBDA e : e.call = call)

MonitoringCompleted ==
    \E i \in DOMAIN run_log :
        run_log[i].call = "monitor_upgrade_status" /\ run_log[i].outcome = "ok"

\* C31, as claimed: check_health is invoked exactly when verify_cluster_health
\* is configured and monitoring completed; an unhealthy report makes run()
\* return 1 through UpgradeFailure; without the option it is never invoked
C31_HealthCheckedIffConfigured ==
    /\ EntriesOf("check_health") # <<>>
         => run_config.verify_cluster_health /\ MonitoringCompleted
    /\ (run_pc \in {"teardown", "get_cluster_state", "done"}
          /\ run_config.verify_cluster_health /\ MonitoringCompleted)
         => Len(EntriesOf("check_health")) = 1
    /\ (run_pc = "done" /\ \E i \in DOMAIN run_log :
            run_log[i].call = "check_health" /\ run_log[i].outcome = "1")
         => result = "1"

\* ---- the poll loop of check_health (SpecHealthLive) ----

\* a status text that ends the loop: no pending state, every valid state
EndsLoop(text) == text \cap pending_states = {} /\ valid_states \subseteq text

\* C32: the poll loop stops at the first status text without a pending and
\* with every valid indicator, polls 5 s apart while the elapsed time is
\* within the timeout, and always ends, at the latest one poll after it
C32_PollLoopIsBounded ==
    /\ [](h_pc = "poll" /\ h_out.kind = "status" => ~EndsLoop(h_status))
    /\ [][h_pc = "poll" /\ h_pc' = "poll"
           => h_clock <= h_args.timeout /\ h_clock' = h_clock + 5]_vars
    /\ [](h_clock <= h_args.timeout + 5)
    /\ <>(h_pc # "poll")

\* the loop was left by the timeout, after the polls at 0, 5 and 10 seconds
C32_Witness ==
    /\ h_pc = "after_loop" /\ h_args.timeout = 10 /\ h_clock = 15
    /\ ~EndsLoop(h_status)

\* ---- the final drain of long_running (SpecExec) ----

\* C33, as claimed: the final drain after the exit of the remote process
\* takes at most 10 s, also without a command timeout, and whatever happens
\* in it the command goes on to return its output and exit code
C33_FinalDrainIsBounded ==
    [][x_pc = "drain"
         => /\ x_pc' \in {"drain", "post"}
            /\ x_clock' - x_clock <= 10]_vars

\* ---- the containerized flag (SpecNode) ----

\* C34, as claimed: after set_ansible_config(config) every demon role-object,
\* OSDs and inactive demons included, has its containerized flag equal to
\* the containerized_deployment setting of the config
C34_EveryDemonGetsTheFlag ==
    [][\A config \in Configs :
         (SetAnsibleConfig(config) /\ raised' = None)
           => \A n \in Nodes : \A i \in DOMAIN ceph_object_list'[n] :
                IsDemon(ceph_object_list'[n][i])
                  => ceph_object_list'[n][i].containerized
                       = IF config.containerized_deployment THEN "True"
                         ELSE "False"]_vars

\* ---- volumes under creation and removal, two nodes (SpecVolumes) ----

\* the volumes of node n whose status the step changes from one to the other
Turned(n, from, to) ==
    {v \in DOMAIN volume_list[n] :
       volume_list[n][v].status = from /\ volume_list'[n][v].status = to}

\* the step changes exactly one volume of n, from one status to the other,
\* and nothing of a volume of another node
OneVolumeTurned(n, from, to) ==
    /\ Cardinality(Turned(n, from, to)) = 1
    /\ \A v \in DOMAIN volume_list[n] \ Turned(n, from, to) :
          volume_list'[n][v] = volume_list[n][v]
    /\ DOMAIN volume_list'[n] = DOMAIN volume_list[n]
    /\ \A m \in NodePair \ {n} : volume_list'[m] = volume_list[m]

\* C35: creating an OSD role-object turns exactly one volume of its node from
\* free to allocated, removing one turns exactly one from allocated to free;
\* creating or removing an object of another role changes no volume, and no
\* volume of another node is ever changed
C35_OneVolumePerOsd ==
    [][\A n \in NodePair :
         /\ \A role \in VolumeRoles :
              (CreateCephObject(n, role) /\ raised' = None)
                => IF role = "osd" THEN OneVolumeTurned(n, FREE, ALLOCATED)
                   ELSE UNCHANGED volume_list
         /\ \A i \in DOMAIN ceph_object_list[n] :
              (RemoveCephObject(n, i) /\ raised' = None)
                => IF ceph_object_list[n][i].role = "osd"
                   THEN OneVolumeTurned(n, ALLOCATED, FREE)
                   ELSE UNCHANGED volume_list]_vars

\* an OSD was removed from the first node, which keeps another OSD and has a
\* free volume again, and an OSD was created on the second next to its client
C35_Witness ==
    /\ raised = None
    /\ Len(get_free_volumes(volume_list[1])) = 1
    /\ Len(get_allocated_volumes(volume_list[1])) = 1
    /\ Len(SelectSeq(ceph_object_list[1], LAMBDA o : o.kind = "CephOsd")) = 1
    /\ Len(ceph_object_list[2]) = 2
    /\ ceph_object_list[2][1].role = "client"
    /\ ceph_object_list[2][2].kind = "CephOsd"

\* ---- commands outstanding on a node in setup_packages (SpecPackages) ----

\* C36: in setup_packages no command is issued to a node while a command
\* issued earlier to that node, its spawned package update included, is still
\* awaited, so that at most one is outstanding per node, and setup_packages
\* returns only after every spawned command has ended
C36_OneOutstandingPerNode ==
    /\ [][\A n \in DOMAIN k_running :
            k_running'[n] > k_running[n] => k_running[n] = 0 /\ n \notin k_spawned]_vars
    /\ [](\A n \in DOMAIN k_running : k_running[n] <= 1)
    /\ [](k_pc = "returned" => k_spawned = {})

\* setup_packages has returned for a fleet of two rpm nodes, each of which
\* was sent its commands and its spawned package update
C36_Witness ==
    /\ k_pc = "returned"
    /\ Len(k_cluster.node_list) = 2
    /\ \A n \in 1..2 : k_cluster.node_list[n].pkg_type = "rpm"

\* ---- device assignment to the OSDs of a node (SpecDevices) ----

Distinct(seq) == \A i, j \in DOMAIN seq : i # j => seq[i] # seq[j]

Osds(objs) == SelectSeq(objs, LAMBDA o : o.role = "osd")

\* what the claim says of the OSDs of the node after the call with devices
DevicesAssigned(objs, devices) ==
    LET osds == Osds(objs)
        active == {i \in DOMAIN osds : is_active(osds[i])}
    IN  /\ \A i, j \in DOMAIN osds :
             i # j /\ osds[i].device # None => osds[i].device # osds[j].device
        /\ Cardinality(active) = Min({Len(osds), Len(devices)})
        /\ \A i \in DOMAIN osds \ active : osds[i].device = None
        /\ \A i \in active : \E d \in Range(devices) : osds[i].device = Basename(d)

\* C37 as claimed: after setup_osd_devices(devices, node) with pairwise
\* distinct devices no two OSDs of the node hold the same device, exactly
\* min(OSDs, devices) OSDs are active and the others have no device
C37_DistinctDevicesAssigned ==
    [][\A n \in Nodes, devices \in OsdDeviceLists :
         (Distinct(devices) /\ SetupOsdDevices(n, devices) /\ raised' = None)
           => DevicesAssigned(ceph_object_list'[n], devices)]_vars

\* the names setup_osd_devices stores: what follows the last "/"
Basenames(devices) == [i \in DOMAIN devices |-> Basename(devices[i])]

\* C37 amended: the same, for devices whose names after the last "/" are
\* non-empty and pairwise distinct
C37_DistinctNamesAssigned ==
    [][\A n \in Nodes, devices \in OsdDeviceLists :
         (/\ Distinct(Basenames(devices))
          /\ "" \notin Range(Basenames(devices))
          /\ SetupOsdDevices(n, devices)
          /\ raised' = None)
           => DevicesAssigned(ceph_object_list'[n], devices)]_vars

\* two OSDs, of which the second call with one device left the first active
\* and took the device of the second away
C37_Witness ==
    /\ raised = None
    /\ Len(Osds(ceph_object_list[1])) = 2
    /\ Osds(ceph_object_list[1])[1].device = "vdb"
    /\ Osds(ceph_object_list[1])[2].device = None

\* ---- the entries of a node's role-object list (SpecNode) ----

\* C38: after construction and any sequence of create_ceph_object and
\* remove_ceph_object every entry of the list of a node is a role-object,
\* never an empty entry, whose role is not "pool", so that get_ceph_objects,
\* which reads the role of every entry, does not fail
C38_EveryEntryIsARoleObject ==
    \A n \in Nodes : \A i \in DOMAIN ceph_object_list[n] :
        /\ ceph_object_list[n][i].kind # "None"
        /\ ceph_object_list[n][i].role # "pool"

\* ---- the upgrade-stop command of the upgrade workflow (SpecRun) ----

\* the positions in the log of the calls of that name
IndicesOf(call) == {i \in DOMAIN run_log : run_log[i].call = call}

\* the query of the installed ceph-common has shown the known-bad version
KnownBadInstalled ==
    \E i \in IndicesOf("rpm -qa | grep ceph-common") : run_log[i].outcome = "16.2.7"

\* C39: the upgrade-stop command is issued iff the build starts with "5" and
\* the installed ceph-common is 16.2.7; it is issued after the preflight
\* check, before the upgrade-start command, and never once that was issued
C39_StopOnlyForKnownBad ==
    /\ IndicesOf("ceph orch upgrade stop") # {}
         => StartsWith5(run_config.rhbuild) /\ KnownBadInstalled
    /\ (KnownBadInstalled /\ run_pc # "upgrade_stop")
         => IndicesOf("ceph orch upgrade stop") # {}
    /\ Cardinality(IndicesOf("ceph orch upgrade stop")) <= 1
    /\ \A i \in IndicesOf("ceph orch upgrade stop") :
         /\ \E j \in IndicesOf("upgrade_check") : j < i /\ run_log[j].outcome = "ok"
         /\ \A j \in IndicesOf("start_upgrade") : i < j
    /\ run_pc = "upgrade_stop" => IndicesOf("start_upgrade") = {}

\* the upgrade was started after the stop command had been issued
C39_Witness ==
    /\ IndicesOf("ceph orch upgrade stop") # {}
    /\ \E j \in IndicesOf("start_upgrade") : run_log[j].outcome = "ok"

\* ---- the command a demon hands to its node (SpecProxy) ----

\* the command with a leading "sudo" taken off and nothing else
StripSudoPrefix(cmd) ==
    IF cmd # <<>> /\ Head(cmd) = "sudo" THEN Tail(cmd) ELSE cmd

\* the container-exec prefix as the claim words it
ClaimedPrefix(o) ==
    <<IF StartsWith8(o.VERSION_ID) THEN "sudo podman exec "
      ELSE "sudo docker exec ">>
    \o (IF o.custom_container_name = None
        THEN <<"ceph-", o.role, "-", o.shortname>>
        ELSE <<o.custom_container_name>>)

\* C40: CephDemon.exec_command hands its node the command unchanged when the
\* demon is not containerized, and otherwise the container-exec prefix
\* followed by the command with only its leading "sudo" stripped
C40_OnlySudoPrefixStripped ==
    (p_call.op = "exec_command" /\ p_obj.kind = "CephDemon")
      => /\ p_node_call.op = "exec_command"
         /\ p_node_call.kw = p_call.kw
         /\ p_node_call.args =
              IF Containerized(p_obj)
              THEN <<ClaimedPrefix(p_obj) \o <<" ">> \o StripSudoPrefix(p_call.args[1])>>
              ELSE p_call.args

====
